---- MODULE Spec2Model ----
(***************************************************************************)
(* Model of prompt-line-rs: the bounded history log (history.rs), the      *)
(* command handlers that use it (lib.rs), the keystroke replay engine      *)
(* (clipboard.rs), the resolution of the paste shortcut from the overrides *)
(* (lib.rs) and the hotkey registration (lib.rs, hotkey.rs, main.rs).      *)
(*                                                                         *)
(* Strings are sequences of one-character tokens.  The tokens "SP", "NL",  *)
(* "QT", "BS" and "BAD" stand for a space, a line feed, a double quote, a  *)
(* backslash and a byte that is not valid UTF-8.                           *)
(***************************************************************************)
EXTENDS Integers, Sequences, FiniteSets, TLC

VARIABLES
    file,         \* the durable log: [exists, data], data a character sequence
    alive,        \* TRUE once History::new has returned Ok
    entries,      \* History.entries, oldest first, each [text, timestamp]
    max_entries,  \* History.max_entries (config.history.max_entries)
    now,          \* the clock read by Utc::now()
    lastOp,       \* the last call: [op, arg, ok, fault]
    found,        \* the value returned by the last get_history
    ideal,        \* every entry the store received since it was built or cleared
    faults,       \* the number of I/O failures met so far
    rpPlatform,   \* the build: "windows" or "other" (cfg(windows))
    rpTokens,     \* the tokens the shortcut string was written from
    rpShortcut,   \* the shortcut string handed to clipboard::simulate_paste
    rpPc,         \* position of the replay: "idle", "start", "built", "done"
    rpModifiers,  \* simulate_paste: modifiers
    rpMainKey,    \* simulate_paste: main_key
    rpInputs,     \* simulate_paste: inputs, the batch given to SendInput
    rpInjected,   \* the events the OS accepted
    rpResult,     \* what simulate_paste returned
    previous_process,         \* AppState.previous_process: [present, name]
    app_overrides,            \* config.behavior.app_overrides, in list order
    simulate_paste_shortcut,  \* config.behavior.simulate_paste_shortcut
    rsPc,         \* the simulate_paste command: "idle", "called", "resolved"
    hkProgram,    \* "idle", "tauri" (lib.rs run) or "egui" (main.rs, hotkey.rs)
    hkLaunch,     \* config.shortcuts.launch
    hkCandidates, \* the hotkeys the registration goes through, in order
    hkPc,         \* "idle", "configured", "fallback", "listening", "unregistered"
    hkNext,       \* the index of the next candidate to try
    hkAttempts,   \* every register call so far: [index, name, accepted]
    hkOsTable,    \* the hotkeys the OS holds for the process
    hkBound,      \* the hotkey the registrar is bound to, or NoHotkey
    hkWarned,     \* the messages written to stderr
    hkRunning,    \* the application runs: window and commands are served
    hkVisible,    \* the capture surface is shown
    clipboard,    \* the system clipboard: [kind, text]
    psPc,         \* paste_and_save: "idle", "add", "copy", "done"
    psText,       \* paste_and_save: text
    psResult,     \* what paste_and_save returned
    psClipBefore, \* the clipboard when paste_and_save was called
    vcPc,         \* trigger_voice_input: 0 no thread, else the thread's next step
    vcDelay,      \* trigger_voice_input: delay_ms
    vcResult,     \* what trigger_voice_input returned
    vcTrace,      \* the key events and sleeps of the voice thread so far
    vcHeld,       \* the modifier keys the system holds as down
    window_visible,   \* the main window is shown
    locks,            \* the holder of each AppState mutex: "none", "sp", "tw"
    voice_enabled,    \* config.voice.enabled
    voice_toggle_on,  \* AppState.voice_toggle_on
    twPc,             \* toggle_window: the statement it is at, or "idle"
    twCaptured,       \* toggle_window: process_name
    twVoice,          \* toggle_window: voice_enabled as read under the config lock
    spPc,             \* the simulate_paste command: 0 not called, else its next step
    spShortcut,       \* the simulate_paste command: shortcut
    cySnapshot,       \* the snapshot stored at the last show
    spSnapshot,       \* the snapshot of the cycle whose submit called simulate_paste
    toggle_flag,      \* main.rs: the AtomicBool shared by the listener and the UI
    flPresses,        \* presses that stored the flag since the last update
    flLast,           \* the last step of the listener or the UI: [op, message, id]
    cfgLaunch,        \* config.shortcuts.launch of the live configuration
    scLast,           \* the last save_config: [ok, config]
    lkPc,             \* the statement each handler is at, 0 when it does not run
    pqPc,             \* two paste_and_save calls: "idle", "add", "copy", "done" of each
    pqText,           \* two paste_and_save calls: text of each
    pqResult          \* two paste_and_save calls: what each returned

hvars == <<file, alive, entries, max_entries, now, lastOp, found, ideal, faults>>
rvars == <<rpPlatform, rpTokens, rpShortcut, rpPc, rpModifiers, rpMainKey, rpInputs, rpInjected,
           rpResult>>
ovars == <<previous_process, app_overrides, simulate_paste_shortcut, rsPc>>
kvars == <<hkProgram, hkLaunch, hkCandidates, hkPc, hkNext, hkAttempts, hkOsTable, hkBound,
           hkWarned, hkRunning, hkVisible>>
svars == <<clipboard, psPc, psText, psResult, psClipBefore>>
vvars == <<vcPc, vcDelay, vcResult, vcTrace, vcHeld>>
cvars == <<window_visible, locks, voice_enabled, voice_toggle_on, twPc, twCaptured, twVoice,
           spPc, spShortcut, cySnapshot, spSnapshot>>
fvars == <<toggle_flag, flPresses, flLast>>
gvars == <<cfgLaunch, scLast>>
qvars == <<pqPc, pqText, pqResult>>
nvars == <<fvars, gvars, lkPc, qvars>>
avars == <<svars, vvars, cvars, nvars>>
xvars == <<ovars, kvars, avars>>
vars == <<hvars, rvars, xvars>>

(***************************************************************************)
(* Bounds of the model.                                                    *)
(***************************************************************************)
MaxEntriesBound == 2
MaxClock == 3
MaxFileLines == 2
MaxFaults == 1
MaxTokens == 3

(***************************************************************************)
(* Characters and strings.                                                 *)
(***************************************************************************)
SP == "SP"
NL == "NL"
QT == "QT"
BS == "BS"
BAD == "BAD"

RECURSIVE Reverse(_)
Reverse(s) == IF s = <<>> THEN <<>> ELSE Append(Reverse(Tail(s)), Head(s))

RECURSIVE Concat(_)
Concat(ss) == IF ss = <<>> THEN <<>> ELSE Head(ss) \o Concat(Tail(ss))

Min(a, b) == IF a < b THEN a ELSE b

\* char::is_whitespace
IsWhitespace(c) == c \in {SP, NL}

\* str::trim
RECURSIVE TrimStart(_)
TrimStart(s) ==
    IF s # <<>> /\ IsWhitespace(Head(s)) THEN TrimStart(Tail(s)) ELSE s

trim(s) == Reverse(TrimStart(Reverse(TrimStart(s))))

\* char::to_lowercase / char::to_uppercase on the model's alphabet
LowerChar(c) ==
    CASE c = "A" -> "a" [] c = "B" -> "b" [] c = "C" -> "c" [] c = "D" -> "d"
      [] c = "E" -> "e" [] c = "F" -> "f" [] c = "G" -> "g" [] c = "H" -> "h"
      [] c = "I" -> "i" [] c = "J" -> "j" [] c = "K" -> "k" [] c = "L" -> "l"
      [] c = "M" -> "m" [] c = "N" -> "n" [] c = "O" -> "o" [] c = "P" -> "p"
      [] c = "Q" -> "q" [] c = "R" -> "r" [] c = "S" -> "s" [] c = "T" -> "t"
      [] c = "U" -> "u" [] c = "V" -> "v" [] c = "W" -> "w" [] c = "X" -> "x"
      [] c = "Y" -> "y" [] c = "Z" -> "z"
      [] OTHER -> c

UpperChar(c) ==
    CASE c = "a" -> "A" [] c = "b" -> "B" [] c = "c" -> "C" [] c = "d" -> "D"
      [] c = "e" -> "E" [] c = "f" -> "F" [] c = "g" -> "G" [] c = "h" -> "H"
      [] c = "i" -> "I" [] c = "j" -> "J" [] c = "k" -> "K" [] c = "l" -> "L"
      [] c = "m" -> "M" [] c = "n" -> "N" [] c = "o" -> "O" [] c = "p" -> "P"
      [] c = "q" -> "Q" [] c = "r" -> "R" [] c = "s" -> "S" [] c = "t" -> "T"
      [] c = "u" -> "U" [] c = "v" -> "V" [] c = "w" -> "W" [] c = "x" -> "X"
      [] c = "y" -> "Y" [] c = "z" -> "Z"
      [] OTHER -> c

to_lowercase(s) == [i \in 1..Len(s) |-> LowerChar(s[i])]
to_uppercase(s) == [i \in 1..Len(s) |-> UpperChar(s[i])]

\* str::contains
contains(hay, needle) ==
    \E i \in 0..(Len(hay) - Len(needle)) :
        SubSeq(hay, i + 1, i + Len(needle)) = needle

\* str::split / BufRead::lines share the scan: the pieces between separators
RECURSIVE SplitAcc(_, _, _)
SplitAcc(s, sep, cur) ==
    IF s = <<>> THEN <<cur>>
    ELSE IF Head(s) = sep THEN <<cur>> \o SplitAcc(Tail(s), sep, <<>>)
    ELSE SplitAcc(Tail(s), sep, Append(cur, Head(s)))

split(s, sep) == SplitAcc(s, sep, <<>>)

(***************************************************************************)
(* The durable log's record format (serde_json on HistoryEntry).  A record *)
(* is  {text: "<escaped text>" ,timestamp: <instant> }  where the tokens   *)
(* "{text:", ",timestamp:" and "}" stand for the fixed parts of the JSON   *)
(* object and an instant is printed as one digit character.                *)
(***************************************************************************)
LBrace == "{text:"
TsKey == ",timestamp:"
RBrace == "}"
Digits == <<"0", "1", "2", "3", "4", "5", "6", "7", "8", "9">>

\* serde's Serialize / Deserialize of DateTime<Utc>
FormatTimestamp(t) == Digits[t + 1]
IsTimestamp(c) == \E i \in 1..Len(Digits) : Digits[i] = c
ParseTimestamp(c) == (CHOOSE i \in 1..Len(Digits) : Digits[i] = c) - 1

\* a mutation of EscapeChar: a line feed is written as it is
EscapeCharRawNewline(c) ==
    IF c = QT THEN <<BS, QT>>
    ELSE IF c = BS THEN <<BS, BS>>
    ELSE <<c>>

\* serde_json's string escaping
EscapeChar(c) ==
    IF c = NL THEN <<BS, "n">>
    ELSE IF c = QT THEN <<BS, QT>>
    ELSE IF c = BS THEN <<BS, BS>>
    ELSE <<c>>

JsonString(s) == <<QT>> \o Concat([i \in 1..Len(s) |-> EscapeChar(s[i])]) \o <<QT>>

\* serde_json::to_string(entry)
to_string(e) ==
    <<LBrace>> \o JsonString(e.text) \o <<TsKey, FormatTimestamp(e.timestamp), RBrace>>

\* the scan of a JSON string literal from position i (after the opening quote):
\* [ok, text, next], next the position after the closing quote
RECURSIVE ParseJsonString(_, _, _)
ParseJsonString(s, i, acc) ==
    IF i > Len(s) THEN [ok |-> FALSE, text |-> <<>>, next |-> i]
    ELSE IF s[i] = QT THEN [ok |-> TRUE, text |-> acc, next |-> i + 1]
    ELSE IF s[i] = BS THEN
        IF i + 1 > Len(s) THEN [ok |-> FALSE, text |-> <<>>, next |-> i]
        ELSE IF s[i + 1] = "n" THEN ParseJsonString(s, i + 2, Append(acc, NL))
        ELSE IF s[i + 1] = QT THEN ParseJsonString(s, i + 2, Append(acc, QT))
        ELSE IF s[i + 1] = BS THEN ParseJsonString(s, i + 2, Append(acc, BS))
        ELSE [ok |-> FALSE, text |-> <<>>, next |-> i]
    ELSE IF s[i] \in {LBrace, TsKey, RBrace} THEN
        [ok |-> FALSE, text |-> <<>>, next |-> i]
    ELSE ParseJsonString(s, i + 1, Append(acc, s[i]))

NoEntry == [text |-> <<>>, timestamp |-> 0]

\* serde_json::from_str::<HistoryEntry>(line): [ok, entry]
from_str(line) ==
    LET s == trim(line)
        bad == [ok |-> FALSE, entry |-> NoEntry]
    IN  IF Len(s) < 2 \/ s[1] # LBrace \/ s[2] # QT THEN bad
        ELSE LET p == ParseJsonString(s, 3, <<>>)
             IN  IF ~p.ok THEN bad
                 ELSE IF Len(s) # p.next + 2 THEN bad
                 ELSE IF s[p.next] # TsKey \/ ~IsTimestamp(s[p.next + 1])
                         \/ s[p.next + 2] # RBrace THEN bad
                 ELSE [ok |-> TRUE,
                       entry |-> [text |-> p.text,
                                  timestamp |-> ParseTimestamp(s[p.next + 1])]]

\* BufReader::lines(): the pieces between line feeds, no piece after a final one
lines(data) ==
    LET p == split(data, NL)
    IN  IF p[Len(p)] = <<>> THEN SubSeq(p, 1, Len(p) - 1) ELSE p

\* a line the reader cannot decode (std::io::Error, InvalidData)
IsInvalidUtf8(line) == \E i \in 1..Len(line) : line[i] = BAD

(***************************************************************************)
(* History (history.rs).                                                   *)
(***************************************************************************)
\* HistoryEntry::new
NewEntry(text, t) == [text |-> text, timestamp |-> t]

\* load: the loop over the lines; [ok, entries]
RECURSIVE LoadLines(_, _)
LoadLines(ls, acc) ==
    IF ls = <<>> THEN [ok |-> TRUE, entries |-> acc]
    ELSE IF IsInvalidUtf8(Head(ls)) THEN [ok |-> FALSE, entries |-> acc]
    ELSE IF trim(Head(ls)) = <<>> THEN LoadLines(Tail(ls), acc)
    ELSE LET r == from_str(Head(ls))
         IN  IF r.ok THEN LoadLines(Tail(ls), Append(acc, r.entry))
             ELSE LoadLines(Tail(ls), acc)

KeepRecent(es, max) ==
    IF Len(es) > max THEN SubSeq(es, Len(es) - max + 1, Len(es)) ELSE es

\* History::load on a fresh store; fault is the I/O failure met, if any
load(f, max, fault) ==
    IF ~f.exists THEN [ok |-> TRUE, entries |-> <<>>]
    ELSE IF fault = "open" THEN [ok |-> FALSE, entries |-> <<>>]
    ELSE LET r == LoadLines(lines(f.data), <<>>)
         IN  IF ~r.ok THEN [ok |-> FALSE, entries |-> r.entries]
             ELSE [ok |-> TRUE, entries |-> KeepRecent(r.entries, max)]

\* History::new
new(f, max, fault) ==
    IF fault = "mkdir" THEN [ok |-> FALSE, entries |-> <<>>]
    ELSE load(f, max, fault)

\* the text save writes when nothing fails
Serialize(es) == Concat([i \in 1..Len(es) |-> to_string(es[i]) \o <<NL>>])

\* History::save; fault = [kind, at, cut]: "none", "open" (the file cannot be
\* opened) or "write" (the writeln! of entry `at` fails after `cut` characters
\* of its line).  The result is [ok, file].
save(es, f, fault) ==
    IF fault.kind = "open" THEN [ok |-> FALSE, file |-> f]
    ELSE IF fault.kind = "write" THEN
        [ok |-> FALSE,
         file |-> [exists |-> TRUE,
                   data |-> Serialize(SubSeq(es, 1, fault.at - 1))
                            \o SubSeq(to_string(es[fault.at]), 1, fault.cut)]]
    ELSE [ok |-> TRUE, file |-> [exists |-> TRUE, data |-> Serialize(es)]]

\* a mutation of TrimOld: the drain stops one entry early
TrimOldKeepsOneMore(es, max) ==
    IF Len(es) > max + 1 THEN SubSeq(es, Len(es) - max, Len(es)) ELSE es

\* add: "Trim old entries if exceeding max"
TrimOld(es, max) ==
    IF Len(es) > max THEN SubSeq(es, Len(es) - max + 1, Len(es)) ELSE es

\* a mutation of IsBlank: the text is not trimmed before the test
IsBlankOnlyEmpty(text) == text = <<>>

\* add: the early return on blank text
IsBlank(text) == trim(text) = <<>>

\* a mutation of add: a failed save rolls the sequence back
addRollingBack(es, max, f, text, t, fault) ==
    IF IsBlank(text) THEN [ok |-> TRUE, entries |-> es, file |-> f]
    ELSE LET pushed == TrimOld(Append(es, NewEntry(text, t)), max)
             w == save(pushed, f, fault)
         IN  [ok |-> w.ok, entries |-> IF w.ok THEN pushed ELSE es, file |-> w.file]

\* History::add; [ok, entries, file]
add(es, max, f, text, t, fault) ==
    IF IsBlank(text) THEN [ok |-> TRUE, entries |-> es, file |-> f]
    ELSE LET pushed == TrimOld(Append(es, NewEntry(text, t)), max)
             w == save(pushed, f, fault)
         IN  [ok |-> w.ok, entries |-> pushed, file |-> w.file]

\* a mutation of Entries: the clone is not reversed
EntriesOldestFirst(es) == es

\* History::entries
Entries(es) == Reverse(es)

\* a mutation of Filter: the texts are compared without case folding
FilterCaseSensitive(es, q) ==
    LET F[i \in 0..Len(es)] ==
            IF i = 0 THEN <<>>
            ELSE IF contains(es[i].text, q) THEN Append(F[i - 1], es[i])
                 ELSE F[i - 1]
    IN  F[Len(es)]

\* search: the filter over the entries
Filter(es, q) ==
    LET query_lower == to_lowercase(q)
        F[i \in 0..Len(es)] ==
            IF i = 0 THEN <<>>
            ELSE IF contains(to_lowercase(es[i].text), query_lower)
                 THEN Append(F[i - 1], es[i])
                 ELSE F[i - 1]
    IN  F[Len(es)]

\* History::search
search(es, q) ==
    IF trim(q) = <<>> THEN Entries(es) ELSE Reverse(Filter(es, q))

\* History::clear: empties the sequence and persists the empty sequence
clear(es, f, fault) ==
    LET w == save(<<>>, f, fault)
    IN  [ok |-> w.ok, entries |-> <<>>, file |-> w.file]


(***************************************************************************)
(* Inputs of the history model.                                            *)
(***************************************************************************)
\* texts submitted by the user: the empty one, a blank one, and "a", "B\"" and
\* "c\n" (an upper-case letter, a quote and a line feed among them)
TextA == <<"a">>
TextB == <<"B", QT>>
TextC == <<"c", NL>>
Texts == { <<>>, <<SP, NL>>, TextA, TextB, TextC }

\* queries typed in the search box
Queries == { <<>>, <<SP>>, <<"A">>, <<"b">>, <<"a", SP>>, <<"a", "b">>, <<SP, "B">>, <<QT>> }

\* the queries issued between the adds of the history specification
HistoryQueries == { <<>>, <<"A">> }

\* lines found in a log at startup, by kind: well-formed records, a truncated
\* record, a blank line and a line that is not valid UTF-8
OldA == [text |-> <<"a">>, timestamp |-> 0]
OldB == [text |-> <<"b", QT>>, timestamp |-> 0]
OldC == [text |-> <<"A", SP, "b">>, timestamp |-> 0]
LineKinds ==
    { [kind |-> "record", entry |-> OldA],
      [kind |-> "record", entry |-> OldB],
      [kind |-> "record", entry |-> OldC],
      [kind |-> "truncated", entry |-> OldA],
      [kind |-> "blank", entry |-> NoEntry],
      [kind |-> "invalid", entry |-> NoEntry] }

\* the characters of a line of each kind
RenderLine(d) ==
    CASE d.kind = "record" -> to_string(d.entry)
      [] d.kind = "truncated" -> SubSeq(to_string(d.entry), 1, 3)
      [] d.kind = "blank" -> <<SP>>
      [] d.kind = "invalid" -> <<"x", BAD>>

RenderFile(ds) == Concat([i \in 1..Len(ds) |-> RenderLine(ds[i]) \o <<NL>>])

LineSeqs == UNION { [1..n -> LineKinds] : n \in 0..MaxFileLines }

MissingFile == [exists |-> FALSE, data |-> <<>>]

\* the logs the load specification starts from
LoadFiles ==
    {MissingFile} \cup { [exists |-> TRUE, data |-> RenderFile(ds)] : ds \in LineSeqs }

\* the logs the history specification starts from: none, one with more records
\* than the bound among damaged lines, one that cannot be decoded
MixedLog ==
    << [kind |-> "record", entry |-> OldA], [kind |-> "truncated", entry |-> OldA],
       [kind |-> "record", entry |-> OldB], [kind |-> "blank", entry |-> NoEntry],
       [kind |-> "record", entry |-> OldC], [kind |-> "record", entry |-> OldA] >>
UndecodableLog ==
    << [kind |-> "record", entry |-> OldA], [kind |-> "invalid", entry |-> NoEntry] >>
HistoryFiles ==
    { MissingFile,
      [exists |-> TRUE, data |-> RenderFile(MixedLog)],
      [exists |-> TRUE, data |-> RenderFile(UndecodableLog)] }

\* the places where a failing writeln! may stop within a line of length n + 1
\* (the record and its line feed): before it, inside it, after the record
Cuts(n) == {0, 2, n}

NoFault == [kind |-> "none", at |-> 0, cut |-> 0]
OpenFault == [kind |-> "open", at |-> 0, cut |-> 0]

\* the I/O failures save can meet while writing es
SaveFaults(es) ==
    {NoFault, OpenFault} \cup
    UNION { { [kind |-> "write", at |-> k, cut |-> c] :
                c \in Cuts(Len(to_string(es[k]))) } : k \in 1..Len(es) }

(***************************************************************************)
(* The history specification: the store is built from the log at startup   *)
(* (and again at each restart) and then serves add, get_history and        *)
(* clear_history.                                                          *)
(***************************************************************************)
NoProcess == [present |-> FALSE, name |-> <<>>]

\* the simulate_paste command is not called
OverridesIdle ==
    /\ previous_process = NoProcess
    /\ app_overrides = <<>>
    /\ simulate_paste_shortcut = <<>>
    /\ rsPc = "idle"

\* the registrar is bound to no hotkey
NoHotkey == [id |-> 0, modifiers |-> {}, code |-> "none", name |-> "none"]

\* the hotkey registration is not run
HotkeyIdle ==
    /\ hkProgram = "idle"
    /\ hkLaunch = <<>>
    /\ hkCandidates = <<>>
    /\ hkPc = "idle"
    /\ hkNext = 1
    /\ hkAttempts = <<>>
    /\ hkOsTable = {}
    /\ hkBound = NoHotkey
    /\ hkWarned = <<>>
    /\ hkRunning = FALSE
    /\ hkVisible = FALSE

ClipEmpty == [kind |-> "empty", text |-> <<>>]

\* paste_and_save is not called
SubmitIdle ==
    /\ clipboard = ClipEmpty
    /\ psPc = "idle"
    /\ psText = <<>>
    /\ psResult = "none"
    /\ psClipBefore = ClipEmpty

\* the handlers outside the history, the replay, the overrides and the hotkey
\* trigger_voice_input is not called
VoiceIdle ==
    /\ vcPc = 0
    /\ vcDelay = "0"
    /\ vcResult = "none"
    /\ vcTrace = <<>>
    /\ vcHeld = {}

LockNames == {"history", "config", "previous_process", "voice_toggle_on"}

\* neither toggle_window nor the simulate_paste command runs
CycleIdle ==
    /\ window_visible = FALSE
    /\ locks = [l \in LockNames |-> "none"]
    /\ voice_enabled = FALSE
    /\ voice_toggle_on = FALSE
    /\ twPc = "idle"
    /\ twCaptured = NoProcess
    /\ twVoice = FALSE
    /\ spPc = 0
    /\ spShortcut = <<>>
    /\ cySnapshot = NoProcess
    /\ spSnapshot = NoProcess

NoStep == [op |-> "none", message |-> "none", id |-> 0]

\* the flag-based listener is not started
FlagIdle ==
    /\ toggle_flag = FALSE
    /\ flPresses = 0
    /\ flLast = NoStep

NoConfig == [launch |-> <<>>, app_overrides |-> <<>>, simulate_paste_shortcut |-> <<>>]

\* save_config is not called
ConfigIdle ==
    /\ cfgLaunch = <<>>
    /\ scLast = [ok |-> FALSE, config |-> NoConfig]

\* the command handlers of lib.rs and toggle_window
Handlers ==
    {"get_history", "clear_history", "paste_and_save", "simulate_paste", "get_config",
     "save_config", "get_voice_toggle", "set_voice_toggle", "toggle_window"}

\* no handler runs
LocksIdle == lkPc = [h \in Handlers |-> 0]

\* the handlers and threads modelled on their own
\* the two concurrent paste_and_save calls
Callers == {1, 2}

\* no concurrent paste_and_save runs
PairIdle ==
    /\ pqPc = [p \in Callers |-> "idle"]
    /\ pqText = [p \in Callers |-> <<>>]
    /\ pqResult = [p \in Callers |-> "none"]

RestIdle == FlagIdle /\ ConfigIdle /\ LocksIdle /\ PairIdle

AppIdle == SubmitIdle /\ VoiceIdle /\ CycleIdle /\ RestIdle

ReplayIdle ==
    /\ rpPlatform = "windows"
    /\ rpTokens = <<>>
    /\ rpShortcut = <<>>
    /\ rpPc = "idle"
    /\ rpModifiers = <<>>
    /\ rpMainKey = "none"
    /\ rpInputs = <<>>
    /\ rpInjected = <<>>
    /\ rpResult = "none"

InitStore ==
    /\ alive = FALSE
    /\ entries = <<>>
    /\ max_entries \in 0..MaxEntriesBound
    /\ now = 1
    /\ lastOp = [op |-> "init", arg |-> <<>>, ok |-> TRUE, fault |-> "none"]
    /\ found = <<>>
    /\ ideal = <<>>
    /\ faults = 0
    /\ ReplayIdle
    /\ OverridesIdle
    /\ HotkeyIdle
    /\ AppIdle

InitHistory == file \in HistoryFiles /\ InitStore

\* run(): History::new(history_path, config.history.max_entries)
HistoryNew(fault) ==
    LET r == new(file, max_entries, fault)
    IN  /\ fault # "none" => faults < MaxFaults
        /\ faults' = IF fault # "none" THEN faults + 1 ELSE faults
        /\ alive' = r.ok
        /\ entries' = IF r.ok THEN r.entries ELSE <<>>
        /\ ideal' = IF r.ok THEN r.entries ELSE <<>>
        /\ lastOp' = [op |-> "new", arg |-> <<>>, ok |-> r.ok, fault |-> fault]
        /\ found' = <<>>
        /\ UNCHANGED <<file, max_entries, now>>
        /\ UNCHANGED rvars
        /\ UNCHANGED xvars
    /\ UNCHANGED xvars

\* History::add(text)
Add(text, fault) ==
    /\ alive
    /\ IsBlank(text) \/ now <= MaxClock
    /\ fault.kind # "none" => faults < MaxFaults /\ ~IsBlank(text)
    /\ faults' = IF fault.kind # "none" THEN faults + 1 ELSE faults
    /\ LET r == add(entries, max_entries, file, text, now, fault)
       IN  /\ entries' = r.entries
           /\ file' = r.file
           /\ lastOp' = [op |-> "add", arg |-> text, ok |-> r.ok,
                         fault |-> IF IsBlank(text) THEN "none" ELSE fault.kind]
    /\ now' = IF IsBlank(text) THEN now ELSE now + 1
    /\ ideal' = IF IsBlank(text) THEN ideal ELSE Append(ideal, NewEntry(text, now))
    /\ found' = <<>>
    /\ UNCHANGED <<alive, max_entries>>
    /\ UNCHANGED rvars
    /\ UNCHANGED xvars

\* a mutation of get_history: the sequence is reversed in place
get_history_reversing(es, f, q) ==
    [found |-> search(es, q), entries |-> Reverse(es), file |-> f]

\* what get_history does to the store and what it returns
get_history(es, f, q) == [found |-> search(es, q), entries |-> es, file |-> f]

\* get_history(query)
GetHistory(q) ==
    /\ alive
    /\ LET r == get_history(entries, file, q)
       IN  /\ found' = r.found
           /\ entries' = r.entries
           /\ file' = r.file
    /\ lastOp' = [op |-> "get_history", arg |-> q, ok |-> TRUE, fault |-> "none"]
    /\ UNCHANGED <<alive, max_entries, now, ideal, faults>>
    /\ UNCHANGED rvars
    /\ UNCHANGED xvars

\* a mutation of clear_history: the handler returns without clearing
clear_history_skipped(es, f, fault) == [ok |-> TRUE, entries |-> es, file |-> f]

\* what clear_history does: History::clear under the history lock
clear_history(es, f, fault) == clear(es, f, fault)

\* clear_history()
ClearHistory(fault) ==
    /\ alive
    /\ fault.kind # "none" => faults < MaxFaults
    /\ faults' = IF fault.kind # "none" THEN faults + 1 ELSE faults
    /\ LET r == clear_history(entries, file, fault)
       IN  /\ entries' = r.entries
           /\ file' = r.file
           /\ lastOp' = [op |-> "clear", arg |-> <<>>, ok |-> r.ok, fault |-> fault.kind]
    /\ ideal' = <<>>
    /\ found' = <<>>
    /\ UNCHANGED <<alive, max_entries, now>>
    /\ UNCHANGED rvars
    /\ UNCHANGED xvars

AddAny ==
    \E text \in Texts :
        \E fault \in SaveFaults(TrimOld(Append(entries, NewEntry(text, now)), max_entries)) :
            Add(text, fault)

NextHistory ==
    \/ \E fault \in {"none", "mkdir", "open"} : HistoryNew(fault)
    \/ AddAny
    \/ \E q \in HistoryQueries : GetHistory(q)
    \/ \E fault \in {NoFault, OpenFault} : ClearHistory(fault)

SpecHistory == InitHistory /\ [][NextHistory]_vars

(***************************************************************************)
(* The load specification: History::new on every log of up to MaxFileLines *)
(* lines of the kinds above.                                               *)
(***************************************************************************)
InitLoad == file \in LoadFiles /\ InitStore

NextLoad ==
    \/ \E fault \in {"none", "mkdir", "open"} : HistoryNew(fault)
    \/ \E q \in Queries : GetHistory(q)

SpecLoad == InitLoad /\ [][NextLoad]_vars

(***************************************************************************)
(* The replay engine (clipboard.rs, the Windows simulate_paste and the     *)
(* stub of the other platforms).  A virtual key is named by its VK_ name,  *)
(* a letter or digit key by its upper-case character (its VK code).        *)
(***************************************************************************)
Letters ==
    { "A", "B", "C", "D", "E", "F", "G", "H", "I", "J", "K", "L", "M",
      "N", "O", "P", "Q", "R", "S", "T", "U", "V", "W", "X", "Y", "Z" }
Numbers == { "0", "1", "2", "3", "4", "5", "6", "7", "8", "9" }

\* parse_key: [ok, key]
parse_key(key) ==
    IF Len(key) = 1 /\ key[1] \in Letters \cup Numbers
    THEN [ok |-> TRUE, key |-> key[1]]
    ELSE IF key = <<"I", "N", "S", "E", "R", "T">>
    THEN [ok |-> TRUE, key |-> "VK_INSERT"]
    ELSE [ok |-> FALSE, key |-> "none"]

\* create_key_input
create_key_input(key, key_up) ==
    [key |-> key, up |-> key_up, extended |-> key \in {"VK_LWIN", "VK_RWIN"}]

\* a mutation of ParseParts: the parts after the first main key are not read
ParsePartsStopAtKey(parts, modifiers, main_key) ==
    LET IsKey(i) == parse_key(to_uppercase(parts[i])).ok
        keys == { i \in 1..Len(parts) : IsKey(i) }
        first == IF keys = {} THEN Len(parts)
                 ELSE CHOOSE i \in keys : \A j \in keys : i <= j
        upper(i) == to_uppercase(parts[i])
        IsMod(i) == upper(i) \in { <<"C", "T", "R", "L">>, <<"S", "H", "I", "F", "T">>,
                                   <<"A", "L", "T">>, <<"W", "I", "N">> }
        Vk(i) == IF upper(i) = <<"C", "T", "R", "L">> THEN "VK_CONTROL"
                 ELSE IF upper(i) = <<"S", "H", "I", "F", "T">> THEN "VK_SHIFT"
                 ELSE IF upper(i) = <<"A", "L", "T">> THEN "VK_MENU"
                 ELSE "VK_LWIN"
        RECURSIVE Mods(_)
        Mods(i) == IF i > first THEN <<>>
                   ELSE IF IsMod(i) THEN <<Vk(i)>> \o Mods(i + 1)
                   ELSE Mods(i + 1)
    IN  IF \E i \in 1..first : ~IsMod(i) /\ ~IsKey(i)
        THEN [err |-> "UnknownKey", modifiers |-> <<>>, main_key |-> "none"]
        ELSE [err |-> "none", modifiers |-> Mods(1),
              main_key |-> IF keys = {} THEN "none"
                           ELSE parse_key(upper(first)).key]

\* a mutation of ParseParts: a main key already found is kept
RECURSIVE ParsePartsFirstKeyWins(_, _, _)
ParsePartsFirstKeyWins(parts, modifiers, main_key) ==
    IF parts = <<>> THEN
        [err |-> "none", modifiers |-> modifiers, main_key |-> main_key]
    ELSE
        LET upper == to_uppercase(Head(parts))
            vk == IF upper \in { <<"C", "T", "R", "L">>,
                                 <<"C", "O", "N", "T", "R", "O", "L">> } THEN "VK_CONTROL"
                  ELSE IF upper = <<"S", "H", "I", "F", "T">> THEN "VK_SHIFT"
                  ELSE IF upper = <<"A", "L", "T">> THEN "VK_MENU"
                  ELSE IF upper \in { <<"W", "I", "N">>, <<"S", "U", "P", "E", "R">>,
                                      <<"M", "E", "T", "A">> } THEN "VK_LWIN"
                  ELSE "none"
            k == parse_key(upper)
        IN  IF vk # "none"
            THEN ParsePartsFirstKeyWins(Tail(parts), Append(modifiers, vk), main_key)
            ELSE IF ~k.ok
            THEN [err |-> "UnknownKey", modifiers |-> modifiers, main_key |-> main_key]
            ELSE ParsePartsFirstKeyWins(Tail(parts), modifiers,
                                        IF main_key = "none" THEN k.key ELSE main_key)

\* simulate_paste: the loop over the parts; [err, modifiers, main_key]
RECURSIVE ParseParts(_, _, _)
ParseParts(parts, modifiers, main_key) ==
    IF parts = <<>> THEN
        [err |-> "none", modifiers |-> modifiers, main_key |-> main_key]
    ELSE
        LET upper == to_uppercase(Head(parts))
        IN  IF upper \in { <<"C", "T", "R", "L">>, <<"C", "O", "N", "T", "R", "O", "L">> }
            THEN ParseParts(Tail(parts), Append(modifiers, "VK_CONTROL"), main_key)
            ELSE IF upper = <<"S", "H", "I", "F", "T">>
            THEN ParseParts(Tail(parts), Append(modifiers, "VK_SHIFT"), main_key)
            ELSE IF upper = <<"A", "L", "T">>
            THEN ParseParts(Tail(parts), Append(modifiers, "VK_MENU"), main_key)
            ELSE IF upper \in { <<"W", "I", "N">>, <<"S", "U", "P", "E", "R">>,
                                <<"M", "E", "T", "A">> }
            THEN ParseParts(Tail(parts), Append(modifiers, "VK_LWIN"), main_key)
            ELSE LET k == parse_key(upper)
                 IN  IF k.ok THEN ParseParts(Tail(parts), modifiers, k.key)
                     ELSE [err |-> "UnknownKey", modifiers |-> modifiers,
                           main_key |-> main_key]

\* a mutation of ParseShortcut: without a main key, V is taken
ParseShortcutDefaultKey(shortcut) ==
    LET raw == split(shortcut, "+")
        parts == [i \in 1..Len(raw) |-> trim(raw[i])]
        r == ParseParts(parts, <<>>, "none")
    IN  IF r.err = "none" /\ r.main_key = "none"
        THEN [err |-> "none", modifiers |-> r.modifiers, main_key |-> "V"]
        ELSE r

\* simulate_paste: the parse of the shortcut string; [err, modifiers, main_key]
ParseShortcut(shortcut) ==
    LET raw == split(shortcut, "+")
        parts == [i \in 1..Len(raw) |-> trim(raw[i])]
    IN  IF parts = <<>> THEN
            [err |-> "EmptyShortcut", modifiers |-> <<>>, main_key |-> "none"]
        ELSE LET r == ParseParts(parts, <<>>, "none")
             IN  IF r.err # "none" THEN r
                 ELSE IF r.main_key = "none" THEN
                     [err |-> "NoMainKey", modifiers |-> r.modifiers,
                      main_key |-> "none"]
                 ELSE r

\* a mutation of BuildInputs: the modifiers are released in the order pressed
BuildInputsReleaseInOrder(modifiers, main_key) ==
    [i \in 1..Len(modifiers) |-> create_key_input(modifiers[i], FALSE)]
    \o <<create_key_input(main_key, FALSE), create_key_input(main_key, TRUE)>>
    \o [i \in 1..Len(modifiers) |-> create_key_input(modifiers[i], TRUE)]

\* simulate_paste: "Build input sequence"
BuildInputs(modifiers, main_key) ==
    [i \in 1..Len(modifiers) |-> create_key_input(modifiers[i], FALSE)]
    \o <<create_key_input(main_key, FALSE), create_key_input(main_key, TRUE)>>
    \o [i \in 1..Len(modifiers) |->
            create_key_input(modifiers[Len(modifiers) + 1 - i], TRUE)]

(***************************************************************************)
(* Inputs of the replay model: shortcut strings of up to MaxTokens tokens  *)
(* joined by "+".  Each token is listed with the modifier the              *)
(* specification assigns to it ("none" for a main-key or unknown token).   *)
(***************************************************************************)
ShortcutTokens ==
    { [chars |-> <<"C", "t", "r", "l">>, modifier |-> "VK_CONTROL"],
      [chars |-> <<"S", "h", "i", "f", "t">>, modifier |-> "VK_SHIFT"],
      [chars |-> <<"a", "l", "t">>, modifier |-> "VK_MENU"],
      [chars |-> <<"W", "i", "n">>, modifier |-> "VK_LWIN"],
      [chars |-> <<"C", "m", "d">>, modifier |-> "VK_LWIN"],
      [chars |-> <<"C", "O", "N", "T", "R", "O", "L">>, modifier |-> "VK_CONTROL"],
      [chars |-> <<"s", "u", "p", "e", "r">>, modifier |-> "VK_LWIN"],
      [chars |-> <<"m", "E", "t", "A">>, modifier |-> "VK_LWIN"],
      [chars |-> <<"C", "O", "M", "M", "A", "N", "D">>, modifier |-> "VK_LWIN"],
      [chars |-> <<"V">>, modifier |-> "none"],
      [chars |-> <<SP, "c", SP>>, modifier |-> "none"],
      [chars |-> <<"F", "1">>, modifier |-> "none"],
      [chars |-> <<>>, modifier |-> "none"] }

TokenSeqs == UNION { [1..n -> ShortcutTokens] : n \in 1..MaxTokens }

\* the string of a token sequence: the tokens joined by "+"
RECURSIVE Join(_)
Join(ts) ==
    IF Len(ts) = 1 THEN ts[1].chars
    ELSE ts[1].chars \o <<"+">> \o Join(Tail(ts))

CtrlShiftV == <<"C", "t", "r", "l", "+", "S", "h", "i", "f", "t", "+", "V">>

HistoryIdle ==
    /\ file = MissingFile
    /\ alive = FALSE
    /\ entries = <<>>
    /\ max_entries = 0
    /\ now = 1
    /\ lastOp = [op |-> "init", arg |-> <<>>, ok |-> TRUE, fault |-> "none"]
    /\ found = <<>>
    /\ ideal = <<>>
    /\ faults = 0

InitReplay ==
    /\ HistoryIdle
    /\ OverridesIdle
    /\ HotkeyIdle
    /\ AppIdle
    /\ rpPlatform \in {"windows", "other"}
    /\ rpTokens \in TokenSeqs
    /\ rpShortcut = Join(rpTokens)
    /\ rpPc = "start"
    /\ rpModifiers = <<>>
    /\ rpMainKey = "none"
    /\ rpInputs = <<>>
    /\ rpInjected = <<>>
    /\ rpResult = "none"

\* simulate_paste on a platform other than Windows
ReplayUnsupported ==
    /\ rpPc = "start"
    /\ rpPlatform # "windows"
    /\ rpPc' = "done"
    /\ rpResult' = "Unsupported"
    /\ UNCHANGED <<rpPlatform, rpTokens, rpShortcut, rpModifiers, rpMainKey, rpInputs, rpInjected>>
    /\ UNCHANGED hvars
    /\ UNCHANGED xvars

\* a mutation of after_parse: without a main key the modifiers are still sent
after_parse_sending_modifiers(r) ==
    IF r.err = "NoMainKey" THEN
        [pc |-> "built", result |-> "none",
         inputs |-> [i \in 1..Len(r.modifiers) |-> create_key_input(r.modifiers[i], FALSE)]]
    ELSE IF r.err # "none" THEN [pc |-> "done", result |-> r.err, inputs |-> <<>>]
    ELSE [pc |-> "built", result |-> "none",
          inputs |-> BuildInputs(r.modifiers, r.main_key)]

\* simulate_paste after the parse r: the error is returned (the `?` and the
\* early returns), or the batch is built; [pc, result, inputs]
after_parse(r) ==
    IF r.err # "none" THEN [pc |-> "done", result |-> r.err, inputs |-> <<>>]
    ELSE [pc |-> "built", result |-> "none",
          inputs |-> BuildInputs(r.modifiers, r.main_key)]

\* simulate_paste on Windows, up to the call of SendInput
ReplayBuild ==
    /\ rpPc = "start"
    /\ rpPlatform = "windows"
    /\ LET r == ParseShortcut(rpShortcut)
           b == after_parse(r)
       IN  /\ rpModifiers' = r.modifiers
           /\ rpMainKey' = r.main_key
           /\ rpPc' = b.pc
           /\ rpResult' = b.result
           /\ rpInputs' = b.inputs
    /\ UNCHANGED <<rpPlatform, rpTokens, rpShortcut, rpInjected>>
    /\ UNCHANGED hvars
    /\ UNCHANGED xvars

\* a mutation of send_result: a single accepted event is taken as a failure
send_result_one_is_error(accepted) ==
    IF accepted <= 1 THEN "InjectionError" ELSE "Ok"

\* simulate_paste: the result for the count SendInput returned
send_result(accepted) == IF accepted = 0 THEN "InjectionError" ELSE "Ok"

\* simulate_paste on Windows: SendInput accepts the first `accepted` events
ReplaySend(accepted) ==
    /\ rpPc = "built"
    /\ rpInjected' = SubSeq(rpInputs, 1, accepted)
    /\ rpResult' = send_result(accepted)
    /\ rpPc' = "done"
    /\ UNCHANGED <<rpPlatform, rpTokens, rpShortcut, rpModifiers, rpMainKey, rpInputs>>
    /\ UNCHANGED hvars
    /\ UNCHANGED xvars

NextReplay ==
    \/ ReplayUnsupported
    \/ ReplayBuild
    \/ \E accepted \in 0..Len(rpInputs) : ReplaySend(accepted)

SpecReplay == InitReplay /\ [][NextReplay]_vars


(***************************************************************************)
(* The simulate_paste command (lib.rs): the paste shortcut is resolved     *)
(* from the foreground snapshot and the overrides of the configuration,    *)
(* then handed to clipboard::simulate_paste.                               *)
(***************************************************************************)
MaxOverrides == 2

\* a mutation of resolve: the last matching override wins
RECURSIVE resolveLastMatch(_, _, _)
resolveLastMatch(process, overrides, default) ==
    IF ~process.present \/ overrides = <<>> THEN default
    ELSE LET o == overrides[Len(overrides)]
         IN  IF o.process_name # <<>>
                /\ to_lowercase(o.process_name) = to_lowercase(process.name)
             THEN o.shortcut
             ELSE resolveLastMatch(process, SubSeq(overrides, 1, Len(overrides) - 1),
                                   default)

\* simulate_paste: "Find matching app override"
RECURSIVE resolve(_, _, _)
resolve(process, overrides, default) ==
    IF ~process.present \/ overrides = <<>> THEN default
    ELSE LET o == Head(overrides)
         IN  IF o.process_name # <<>>
                /\ to_lowercase(o.process_name) = to_lowercase(process.name)
             THEN o.shortcut
             ELSE resolve(process, Tail(overrides), default)

CtrlV == <<"C", "t", "r", "l", "+", "V">>
ShiftInsert == <<"S", "h", "i", "f", "t", "+", "I", "n", "s", "e", "r", "t">>

\* process names: of an override (empty in the placeholder of the default
\* configuration) and of a foreground window (never empty)
OverrideNames == { <<>>, <<"a">>, <<"a", "b">>, <<"A", "B">> }
ForegroundNames == { <<"a">>, <<"A", "b">>, <<"c">> }
OverrideShortcuts == { CtrlShiftV, ShiftInsert, <<>> }
Overrides == [process_name : OverrideNames, shortcut : OverrideShortcuts]
OverrideLists == UNION { [1..n -> Overrides] : n \in 0..MaxOverrides }
Snapshots == {NoProcess} \cup [present : {TRUE}, name : ForegroundNames]

InitResolve ==
    /\ HistoryIdle
    /\ HotkeyIdle
    /\ AppIdle
    /\ previous_process \in Snapshots
    /\ app_overrides \in OverrideLists
    /\ simulate_paste_shortcut \in {CtrlV, CtrlShiftV}
    /\ rsPc = "called"
    /\ rpPlatform \in {"windows", "other"}
    /\ rpTokens = <<>>
    /\ rpShortcut = <<>>
    /\ rpPc = "idle"
    /\ rpModifiers = <<>>
    /\ rpMainKey = "none"
    /\ rpInputs = <<>>
    /\ rpInjected = <<>>
    /\ rpResult = "none"

\* simulate_paste command: the shortcut is resolved and clipboard::simulate_paste called
Resolve ==
    /\ rsPc = "called"
    /\ rsPc' = "resolved"
    /\ rpShortcut' = resolve(previous_process, app_overrides, simulate_paste_shortcut)
    /\ rpPc' = "start"
    /\ UNCHANGED <<previous_process, app_overrides, simulate_paste_shortcut>>
    /\ UNCHANGED <<rpPlatform, rpTokens, rpModifiers, rpMainKey, rpInputs, rpInjected, rpResult>>
    /\ UNCHANGED <<hvars, kvars, avars>>

NextResolve ==
    \/ Resolve
    \/ NextReplay

SpecResolve == InitResolve /\ [][NextResolve]_vars

(***************************************************************************)
(* The hotkey registration: the setup closure of run (lib.rs), which tries *)
(* the configured launch shortcut and then a fallback list, and            *)
(* listen_hotkey (hotkey.rs) with its fixed list, started by main          *)
(* (main.rs).  A hotkey is [id, modifiers, code, name].                    *)
(***************************************************************************)
\* parse_shortcut: the key code named by a lower-case part, or "none"
KeyCode(lower) ==
    IF lower = <<"s", "p", "a", "c", "e">> THEN "Space"
    ELSE IF lower \in { <<"e", "n", "t", "e", "r">>, <<"r", "e", "t", "u", "r", "n">> }
    THEN "Enter"
    ELSE IF lower \in { <<"e", "s", "c", "a", "p", "e">>, <<"e", "s", "c">> }
    THEN "Escape"
    ELSE IF lower = <<"t", "a", "b">> THEN "Tab"
    ELSE IF Len(lower) = 1 /\ UpperChar(lower[1]) \in Letters
    THEN UpperChar(lower[1])
    ELSE "none"

\* parse_shortcut: the loop over the parts; [modifiers, key_code]
RECURSIVE ParseLaunchParts(_, _, _)
ParseLaunchParts(parts, modifiers, key_code) ==
    IF parts = <<>> THEN [modifiers |-> modifiers, key_code |-> key_code]
    ELSE
        LET lower == to_lowercase(Head(parts))
        IN  IF lower \in { <<"c", "t", "r", "l">>, <<"c", "o", "n", "t", "r", "o", "l">> }
            THEN ParseLaunchParts(Tail(parts), modifiers \cup {"CONTROL"}, key_code)
            ELSE IF lower = <<"s", "h", "i", "f", "t">>
            THEN ParseLaunchParts(Tail(parts), modifiers \cup {"SHIFT"}, key_code)
            ELSE IF lower = <<"a", "l", "t">>
            THEN ParseLaunchParts(Tail(parts), modifiers \cup {"ALT"}, key_code)
            ELSE IF lower \in { <<"w", "i", "n">>, <<"s", "u", "p", "e", "r">>,
                                <<"c", "m", "d">>,
                                <<"c", "o", "m", "m", "a", "n", "d">> }
            THEN ParseLaunchParts(Tail(parts), modifiers \cup {"SUPER"}, key_code)
            ELSE IF KeyCode(lower) # "none"
            THEN ParseLaunchParts(Tail(parts), modifiers, KeyCode(lower))
            ELSE ParseLaunchParts(Tail(parts), modifiers, key_code)

\* parse_shortcut: [some, modifiers, code]
parse_shortcut(shortcut_str) ==
    LET raw == split(shortcut_str, "+")
        parts == [i \in 1..Len(raw) |-> trim(raw[i])]
    IN  IF parts = <<>> THEN [some |-> FALSE, modifiers |-> {}, code |-> "none"]
        ELSE LET r == ParseLaunchParts(parts, {}, "none")
             IN  [some |-> r.key_code # "none",
                  modifiers |-> IF r.key_code # "none" THEN r.modifiers ELSE {},
                  code |-> r.key_code]

\* run: fallback_shortcuts
fallback_shortcuts ==
    << [id |-> 0, modifiers |-> {"CONTROL", "SHIFT"}, code |-> "Space",
        name |-> "Ctrl+Shift+Space"],
       [id |-> 0, modifiers |-> {"SUPER", "SHIFT"}, code |-> "Space",
        name |-> "Win+Shift+Space"],
       [id |-> 0, modifiers |-> {"ALT"}, code |-> "Space", name |-> "Alt+Space"],
       [id |-> 0, modifiers |-> {"CONTROL", "ALT"}, code |-> "P", name |-> "Ctrl+Alt+P"] >>

\* listen_hotkey: hotkey_options
hotkey_options ==
    << [id |-> 1, modifiers |-> {"ALT"}, code |-> "Space", name |-> "Alt+Space"],
       [id |-> 2, modifiers |-> {"CONTROL", "SHIFT"}, code |-> "Space",
        name |-> "Ctrl+Shift+Space"],
       [id |-> 3, modifiers |-> {"SUPER", "SHIFT"}, code |-> "Space",
        name |-> "Win+Shift+Space"],
       [id |-> 4, modifiers |-> {"CONTROL", "ALT"}, code |-> "P", name |-> "Ctrl+Alt+P"] >>

\* run: the hotkeys the setup closure goes through for a launch shortcut
LaunchCandidates(launch) ==
    LET p == parse_shortcut(launch)
    IN  (IF p.some
         THEN << [id |-> 0, modifiers |-> p.modifiers, code |-> p.code,
                  name |-> "configured"] >>
         ELSE <<>>) \o fallback_shortcuts

\* config.shortcuts.launch: the default, two other shortcuts, one equal to a
\* fallback, one with an unknown modifier, one without a key, the empty string
LaunchShortcuts ==
    { <<"C", "t", "r", "l", "+", "S", "h", "i", "f", "t", "+", "S", "p", "a", "c", "e">>,
      <<"A", "l", "t", "+", "P">>,
      <<"p", "+", "C", "t", "r", "l", "+", "q">>,
      <<"w", "i", "n", "+", "s", "h", "i", "f", "t", "+", "s", "p", "a", "c", "e">>,
      <<"M", "e", "t", "a", "+", "T", "a", "b">>,
      <<"C", "t", "r", "l", "+", "S", "h", "i", "f", "t">>,
      <<>> }

\* a mutation of try_candidate: the loop goes on after a success
try_candidate_no_break(cands, next, table, accepted) ==
    [pc |-> IF next < Len(cands) THEN "trying"
            ELSE IF accepted THEN "listening" ELSE "unregistered",
     next |-> next + 1,
     table |-> IF accepted THEN table \cup {cands[next]} ELSE table,
     bound |-> IF accepted THEN cands[next] ELSE NoHotkey]

\* one pass of the registration loop over the candidate at `next` with the
\* answer of the OS: [pc, next, table, bound]
try_candidate(cands, next, table, accepted) ==
    IF accepted THEN
        [pc |-> "listening", next |-> next + 1,
         table |-> table \cup {cands[next]}, bound |-> cands[next]]
    ELSE
        [pc |-> IF next < Len(cands) THEN "trying" ELSE "unregistered",
         next |-> next + 1, table |-> table, bound |-> NoHotkey]

\* a mutation of on_exhausted: the failure ends the application
on_exhausted_fatal(program) ==
    [running |-> FALSE, warned |-> <<"RegistrationError">>]

\* what follows the rejection of the last candidate: the warning of run, or
\* the Err of listen_hotkey that main reports; the application goes on
on_exhausted(program) ==
    [running |-> TRUE, warned |-> <<"RegistrationError">>]

InitHotkey ==
    /\ HistoryIdle
    /\ ReplayIdle
    /\ OverridesIdle
    /\ AppIdle
    /\ hkProgram \in {"tauri", "egui"}
    /\ hkLaunch \in (IF hkProgram = "tauri" THEN LaunchShortcuts ELSE {<<>>})
    /\ hkCandidates = IF hkProgram = "tauri" THEN LaunchCandidates(hkLaunch)
                      ELSE hotkey_options
    /\ hkPc = "trying"
    /\ hkNext = 1
    /\ hkAttempts = <<>>
    /\ hkOsTable = {}
    /\ hkBound = NoHotkey
    /\ hkWarned = <<>>
    /\ hkRunning = (hkProgram = "egui")
    /\ hkVisible \in (IF hkProgram = "egui" THEN {TRUE} ELSE BOOLEAN)

\* one register call (RegisterHotKey, global_shortcut().register) and what the
\* loop does with its answer
TryRegister(accepted) ==
    /\ hkPc = "trying"
    /\ hkNext <= Len(hkCandidates)
    /\ LET r == try_candidate(hkCandidates, hkNext, hkOsTable, accepted)
           x == on_exhausted(hkProgram)
       IN  /\ hkPc' = r.pc
           /\ hkNext' = r.next
           /\ hkOsTable' = r.table
           /\ hkBound' = r.bound
           /\ hkWarned' = IF r.pc = "unregistered" THEN x.warned ELSE hkWarned
           /\ hkRunning' = IF r.pc = "unregistered" THEN x.running
                           ELSE IF r.pc = "listening" THEN TRUE
                           ELSE hkRunning
    /\ hkAttempts' = Append(hkAttempts, [index |-> hkNext,
                                         name |-> hkCandidates[hkNext].name,
                                         accepted |-> accepted])
    /\ UNCHANGED <<hkProgram, hkLaunch, hkCandidates, hkVisible>>
    /\ UNCHANGED <<hvars, rvars, ovars, avars>>

\* a mutation of on_hotkey: the hotkey is unregistered when it is pressed
on_hotkey_unregistering(bound, table, visible) ==
    [bound |-> NoHotkey, table |-> table \ {bound}, visible |-> ~visible]

\* the handling of a press (WM_HOTKEY with the registered id, the global
\* shortcut handler): the toggle is requested; [bound, table, visible]
on_hotkey(bound, table, visible) ==
    [bound |-> bound, table |-> table, visible |-> ~visible]

\* a press of the registered hotkey reaches the toggle
HotkeyPress ==
    /\ hkPc = "listening"
    /\ hkRunning
    /\ hkBound \in hkOsTable
    /\ hkBound' = on_hotkey(hkBound, hkOsTable, hkVisible).bound
    /\ hkOsTable' = on_hotkey(hkBound, hkOsTable, hkVisible).table
    /\ hkVisible' = on_hotkey(hkBound, hkOsTable, hkVisible).visible
    /\ UNCHANGED <<hkProgram, hkLaunch, hkCandidates, hkPc, hkNext, hkAttempts,
                   hkWarned, hkRunning>>
    /\ UNCHANGED <<hvars, rvars, ovars, avars>>

\* the surface is toggled without the hotkey: the tray icon or its Show item
\* (lib.rs), the Close button or Esc (main.rs)
SurfaceToggle ==
    /\ hkRunning
    /\ hkPc \in {"listening", "unregistered", "ended"}
    /\ hkProgram = "egui" => hkVisible
    /\ hkVisible' = ~hkVisible
    /\ UNCHANGED <<hkProgram, hkLaunch, hkCandidates, hkPc, hkNext, hkAttempts, hkOsTable,
                   hkBound, hkWarned, hkRunning>>
    /\ UNCHANGED <<hvars, rvars, ovars, avars>>

\* listen_hotkey: GetMessageW ends the loop and the hotkey is unregistered
ListenEnd ==
    /\ hkProgram = "egui"
    /\ hkPc = "listening"
    /\ hkPc' = "ended"
    /\ hkOsTable' = hkOsTable \ {hkBound}
    /\ hkBound' = NoHotkey
    /\ UNCHANGED <<hkProgram, hkLaunch, hkCandidates, hkNext, hkAttempts, hkWarned,
                   hkRunning, hkVisible>>
    /\ UNCHANGED <<hvars, rvars, ovars, avars>>

NextHotkey ==
    \/ \E accepted \in BOOLEAN : TryRegister(accepted)
    \/ HotkeyPress
    \/ SurfaceToggle
    \/ ListenEnd

SpecHotkey == InitHotkey /\ [][NextHotkey]_vars

(***************************************************************************)
(* The paste_and_save command (lib.rs): the text is added to the history   *)
(* under the history lock and then copied to the clipboard by              *)
(* copy_to_clipboard (clipboard.rs).                                       *)
(***************************************************************************)
ClipImage == [kind |-> "image", text |-> <<>>]
ClipText(t) == [kind |-> "text", text |-> t]

\* a mutation of copy_to_clipboard: the clipboard is emptied before it is opened
copy_to_clipboard_clearing_first(clip, text, fault) ==
    IF fault = "none" THEN [ok |-> TRUE, clipboard |-> ClipText(text)]
    ELSE [ok |-> FALSE, clipboard |-> ClipEmpty]

\* copy_to_clipboard with the call that fails, if any ("new", "clear",
\* "set_text"): [ok, clipboard]
copy_to_clipboard(clip, text, fault) ==
    IF fault = "new" THEN [ok |-> FALSE, clipboard |-> clip]
    ELSE IF fault = "clear" THEN [ok |-> FALSE, clipboard |-> clip]
    ELSE IF fault = "set_text" THEN [ok |-> FALSE, clipboard |-> ClipEmpty]
    ELSE [ok |-> TRUE, clipboard |-> ClipText(text)]

\* a mutation of after_add: the text is copied whatever add returned
after_add_copying_anyway(ok) == [pc |-> "copy", result |-> "none"]

\* paste_and_save after history.add: the `?` returns its error; [pc, result]
after_add(ok) ==
    IF ok THEN [pc |-> "copy", result |-> "none"]
    ELSE [pc |-> "done", result |-> "StorageError"]

SubmitTexts == { <<>>, <<SP, NL>>, TextA, TextC }

InitSubmit ==
    /\ file = MissingFile
    /\ alive = TRUE
    /\ entries = <<>>
    /\ max_entries \in 1..MaxEntriesBound
    /\ now = 1
    /\ lastOp = [op |-> "new", arg |-> <<>>, ok |-> TRUE, fault |-> "none"]
    /\ found = <<>>
    /\ ideal = <<>>
    /\ faults = 0
    /\ ReplayIdle
    /\ OverridesIdle
    /\ HotkeyIdle
    /\ VoiceIdle
    /\ CycleIdle
    /\ RestIdle
    /\ clipboard \in {ClipEmpty, ClipImage, ClipText(<<"o">>)}
    /\ psPc = "idle"
    /\ psText = <<>>
    /\ psResult = "none"
    /\ psClipBefore = clipboard

\* paste_and_save(text): the blank text returns Ok at once
PasteAndSaveCall(text) ==
    /\ psPc \in {"idle", "done"}
    /\ IsBlank(text) \/ now <= MaxClock
    /\ psText' = text
    /\ psClipBefore' = clipboard
    /\ psPc' = IF IsBlank(text) THEN "done" ELSE "add"
    /\ psResult' = IF IsBlank(text) THEN "Ok" ELSE "none"
    /\ UNCHANGED <<clipboard>>
    /\ UNCHANGED <<hvars, rvars, ovars, kvars, vvars, cvars, nvars>>

\* paste_and_save: state.history.lock().unwrap().add(text.clone())?
PasteAndSaveAdd(fault) ==
    /\ psPc = "add"
    /\ fault.kind # "none" => faults < MaxFaults
    /\ faults' = IF fault.kind # "none" THEN faults + 1 ELSE faults
    /\ LET r == add(entries, max_entries, file, psText, now, fault)
           a == after_add(r.ok)
       IN  /\ entries' = r.entries
           /\ file' = r.file
           /\ lastOp' = [op |-> "add", arg |-> psText, ok |-> r.ok, fault |-> fault.kind]
           /\ psPc' = a.pc
           /\ psResult' = a.result
    /\ now' = now + 1
    /\ ideal' = Append(ideal, NewEntry(psText, now))
    /\ found' = <<>>
    /\ UNCHANGED <<alive, max_entries>>
    /\ UNCHANGED <<clipboard, psText, psClipBefore>>
    /\ UNCHANGED <<rvars, ovars, kvars, vvars, cvars, nvars>>

\* paste_and_save: clipboard::copy_to_clipboard(&text)?
PasteAndSaveCopy(fault) ==
    /\ psPc = "copy"
    /\ LET c == copy_to_clipboard(clipboard, psText, fault)
       IN  /\ clipboard' = c.clipboard
           /\ psResult' = IF c.ok THEN "Ok" ELSE "ClipboardError"
    /\ psPc' = "done"
    /\ UNCHANGED <<psText, psClipBefore>>
    /\ UNCHANGED <<hvars, rvars, ovars, kvars, vvars, cvars, nvars>>

\* the add of paste_and_save with every failure its save can meet
PasteAndSaveAddAny ==
    \E fault \in SaveFaults(TrimOld(Append(entries, NewEntry(psText, now)), max_entries)) :
        PasteAndSaveAdd(fault)

NextSubmit ==
    \/ \E text \in SubmitTexts : PasteAndSaveCall(text)
    \/ PasteAndSaveAddAny
    \/ \E fault \in {"none", "new", "clear", "set_text"} : PasteAndSaveCopy(fault)

SpecSubmit == InitSubmit /\ [][NextSubmit]_vars

(***************************************************************************)
(* trigger_voice_input (clipboard.rs): on Windows a spawned thread sleeps  *)
(* delay_ms, releases Ctrl, Shift and Alt, and presses Win+H with 50 ms    *)
(* sleeps between the events; elsewhere the function returns an error.     *)
(***************************************************************************)
\* keybd_event(vk, 0, flags, 0)
keybd_event(key, key_up) ==
    [kind |-> "key", key |-> key, up |-> key_up, extended |-> key = "VK_LWIN"]

\* sleep(Duration::from_millis(ms)); "delay_ms" is the argument of the call
sleep(ms) == [kind |-> "sleep", ms |-> ms]

\* a mutation of voice_steps: the chord is pressed before the modifiers are released
voice_steps_chord_first ==
    << sleep("delay_ms"),
       keybd_event("VK_LWIN", FALSE), sleep("50"),
       keybd_event("VK_CONTROL", TRUE), keybd_event("VK_SHIFT", TRUE),
       keybd_event("VK_MENU", TRUE), sleep("50"),
       keybd_event("VK_H", FALSE), sleep("50"),
       keybd_event("VK_H", TRUE), sleep("50"),
       keybd_event("VK_LWIN", TRUE) >>

\* the statements of the spawned thread, in program order
voice_steps ==
    << sleep("delay_ms"),
       keybd_event("VK_CONTROL", TRUE), keybd_event("VK_SHIFT", TRUE),
       keybd_event("VK_MENU", TRUE), sleep("50"),
       keybd_event("VK_LWIN", FALSE), sleep("50"),
       keybd_event("VK_H", FALSE), sleep("50"),
       keybd_event("VK_H", TRUE), sleep("50"),
       keybd_event("VK_LWIN", TRUE) >>

\* the delay_ms values of a call
VoiceDelays == {"0", "100", "500"}

\* the modifiers a launch hotkey can leave held
VoiceModifiers == {"VK_CONTROL", "VK_SHIFT", "VK_MENU"}

\* the shortcut given to simulate_paste beside the voice input
VoiceShortcuts == { ts \in TokenSeqs : Len(ts) = 1 }

InitVoice ==
    /\ HistoryIdle
    /\ OverridesIdle
    /\ HotkeyIdle
    /\ SubmitIdle
    /\ CycleIdle
    /\ RestIdle
    /\ rpPlatform \in {"windows", "other"}
    /\ rpTokens \in VoiceShortcuts
    /\ rpShortcut = Join(rpTokens)
    /\ rpPc = "start"
    /\ rpModifiers = <<>>
    /\ rpMainKey = "none"
    /\ rpInputs = <<>>
    /\ rpInjected = <<>>
    /\ rpResult = "none"
    /\ vcPc = 0
    /\ vcDelay = "0"
    /\ vcResult = "none"
    /\ vcTrace = <<>>
    /\ vcHeld \in SUBSET VoiceModifiers

\* a mutation of voice_call: every build spawns the thread
voice_call_any_platform(platform) == [pc |-> 1, result |-> "Ok"]

\* trigger_voice_input under cfg(windows) and under cfg(not(windows)):
\* [pc, result]
voice_call(platform) ==
    IF platform = "windows" THEN [pc |-> 1, result |-> "Ok"]
    ELSE [pc |-> 0, result |-> "Unsupported"]

\* trigger_voice_input(delay_ms): the thread is spawned and Ok returned, or
\* the stub returns its error
VoiceCall(delay_ms) ==
    /\ vcPc = 0
    /\ vcResult = "none"
    /\ vcDelay' = delay_ms
    /\ vcPc' = voice_call(rpPlatform).pc
    /\ vcResult' = voice_call(rpPlatform).result
    /\ UNCHANGED <<vcTrace, vcHeld>>
    /\ UNCHANGED <<hvars, rvars, ovars, kvars, svars, cvars, nvars>>

\* the next statement of the spawned thread
VoiceStep ==
    /\ vcPc \in 1..Len(voice_steps)
    /\ LET st == voice_steps[vcPc]
       IN  /\ vcTrace' = Append(vcTrace,
                 IF st.kind = "sleep" /\ st.ms = "delay_ms" THEN sleep(vcDelay) ELSE st)
           /\ vcHeld' = IF st.kind = "sleep" THEN vcHeld
                        ELSE IF st.up THEN vcHeld \ {st.key}
                        ELSE vcHeld \cup {st.key}
    /\ vcPc' = vcPc + 1
    /\ UNCHANGED <<vcDelay, vcResult>>
    /\ UNCHANGED <<hvars, rvars, ovars, kvars, svars, cvars, nvars>>

NextVoice ==
    \/ \E delay_ms \in VoiceDelays : VoiceCall(delay_ms)
    \/ VoiceStep
    \/ NextReplay

SpecVoice == InitVoice /\ [][NextVoice]_vars

(***************************************************************************)
(* The show/hide cycle (lib.rs): toggle_window, called by the global       *)
(* shortcut handler and the tray, and the simulate_paste command, called   *)
(* by the frontend after it hid the window.  The two run on different      *)
(* threads and interleave statement by statement; each mutex of AppState   *)
(* has at most one holder.                                                 *)
(***************************************************************************)
NoLocks == [l \in LockNames |-> "none"]

\* a mutation of simulate_paste_steps: the locks are taken before the sleep
simulate_paste_steps_locking_first ==
    << "lock_config", "lock_previous_process", "sleep", "resolve",
       "drop_config", "drop_previous_process", "replay" >>

\* the statements of the simulate_paste command, in program order
simulate_paste_steps ==
    << "sleep", "lock_config", "lock_previous_process", "resolve",
       "drop_config", "drop_previous_process", "replay" >>

\* the mutex a lock or drop statement names
LockOf(st) ==
    IF st \in {"lock_config", "drop_config"} THEN "config" ELSE "previous_process"

\* a mutation of toggle_store: a capture of nothing keeps the old snapshot
toggle_store_keeping_on_none(captured, previous) ==
    IF captured.present THEN captured ELSE previous

\* toggle_window: *state.previous_process.lock().unwrap() = process_name
toggle_store(captured, previous) == captured

\* get_foreground_process_name under cfg(windows) and cfg(not(windows))
get_foreground_process_name(platform) ==
    IF platform = "windows" THEN Snapshots ELSE {NoProcess}

\* the app_overrides of the configuration during the cycles
CycleOverrides ==
    { <<>>, <<[process_name |-> <<"a", "b">>, shortcut |-> CtrlShiftV]>> }

InitCycle ==
    /\ HistoryIdle
    /\ HotkeyIdle
    /\ SubmitIdle
    /\ VoiceIdle
    /\ RestIdle
    /\ previous_process = NoProcess
    /\ app_overrides \in CycleOverrides
    /\ simulate_paste_shortcut = CtrlV
    /\ rsPc = "idle"
    /\ rpPlatform \in {"windows", "other"}
    /\ rpTokens = <<>>
    /\ rpShortcut = <<>>
    /\ rpPc = "idle"
    /\ rpModifiers = <<>>
    /\ rpMainKey = "none"
    /\ rpInputs = <<>>
    /\ rpInjected = <<>>
    /\ rpResult = "none"
    /\ window_visible = FALSE
    /\ locks = NoLocks
    /\ voice_enabled \in BOOLEAN
    /\ voice_toggle_on \in BOOLEAN
    /\ twPc = "idle"
    /\ twCaptured = NoProcess
    /\ twVoice = FALSE
    /\ spPc = 0
    /\ spShortcut = <<>>
    /\ cySnapshot = NoProcess
    /\ spSnapshot = NoProcess

\* the global shortcut handler or a tray event calls toggle_window
ToggleCall ==
    /\ twPc = "idle"
    /\ twPc' = "is_visible"
    /\ UNCHANGED <<window_visible, locks, voice_enabled, voice_toggle_on, twCaptured, twVoice,
                   spPc, spShortcut, cySnapshot, spSnapshot>>
    /\ UNCHANGED <<hvars, rvars, ovars, kvars, svars, vvars, nvars>>

\* toggle_window: a visible window is hidden
ToggleHide ==
    /\ twPc = "is_visible"
    /\ window_visible
    /\ window_visible' = FALSE
    /\ twPc' = "idle"
    /\ UNCHANGED <<locks, voice_enabled, voice_toggle_on, twCaptured, twVoice,
                   spPc, spShortcut, cySnapshot, spSnapshot>>
    /\ UNCHANGED <<hvars, rvars, ovars, kvars, svars, vvars, nvars>>

\* toggle_window: let process_name = get_foreground_process_name()
ToggleCapture(process_name) ==
    /\ twPc = "is_visible"
    /\ ~window_visible
    /\ twCaptured' = process_name
    /\ twPc' = "store"
    /\ UNCHANGED <<window_visible, locks, voice_enabled, voice_toggle_on, twVoice,
                   spPc, spShortcut, cySnapshot, spSnapshot>>
    /\ UNCHANGED <<hvars, rvars, ovars, kvars, svars, vvars, nvars>>

\* toggle_window: the snapshot is stored under the previous_process lock
ToggleStore ==
    /\ twPc = "store"
    /\ locks["previous_process"] = "none"
    /\ previous_process' = toggle_store(twCaptured, previous_process)
    /\ twCaptured' = NoProcess
    /\ twPc' = "show"
    /\ UNCHANGED <<app_overrides, simulate_paste_shortcut, rsPc>>
    /\ UNCHANGED <<window_visible, locks, voice_enabled, voice_toggle_on, twVoice,
                   spPc, spShortcut, cySnapshot, spSnapshot>>
    /\ UNCHANGED <<hvars, rvars, kvars, svars, vvars, nvars>>

\* toggle_window: window.show() and window.set_focus()
ToggleShow ==
    /\ twPc = "show"
    /\ window_visible' = TRUE
    /\ cySnapshot' = previous_process
    /\ twPc' = "lock_config"
    /\ UNCHANGED <<locks, voice_enabled, voice_toggle_on, twCaptured, twVoice,
                   spPc, spShortcut, spSnapshot>>
    /\ UNCHANGED <<hvars, rvars, ovars, kvars, svars, vvars, nvars>>

\* toggle_window: the voice settings are read under the config lock
ToggleLockConfig ==
    /\ twPc = "lock_config"
    /\ locks["config"] = "none"
    /\ locks' = [locks EXCEPT !["config"] = "tw"]
    /\ twVoice' = voice_enabled
    /\ twPc' = "drop_config"
    /\ UNCHANGED <<window_visible, voice_enabled, voice_toggle_on, twCaptured,
                   spPc, spShortcut, cySnapshot, spSnapshot>>
    /\ UNCHANGED <<hvars, rvars, ovars, kvars, svars, vvars, nvars>>

\* toggle_window: drop(config) and the test of voice_enabled
ToggleDropConfig ==
    /\ twPc = "drop_config"
    /\ locks' = [locks EXCEPT !["config"] = "none"]
    /\ twPc' = IF twVoice THEN "voice_toggle" ELSE "idle"
    /\ twVoice' = FALSE
    /\ UNCHANGED <<window_visible, voice_enabled, voice_toggle_on, twCaptured,
                   spPc, spShortcut, cySnapshot, spSnapshot>>
    /\ UNCHANGED <<hvars, rvars, ovars, kvars, svars, vvars, nvars>>

\* toggle_window: let toggle_on = *state.voice_toggle_on.lock().unwrap()
ToggleReadVoiceToggle ==
    /\ twPc = "voice_toggle"
    /\ locks["voice_toggle_on"] = "none"
    /\ twPc' = IF voice_toggle_on THEN "trigger" ELSE "idle"
    /\ UNCHANGED <<window_visible, locks, voice_enabled, voice_toggle_on, twCaptured, twVoice,
                   spPc, spShortcut, cySnapshot, spSnapshot>>
    /\ UNCHANGED <<hvars, rvars, ovars, kvars, svars, vvars, nvars>>

\* toggle_window: let _ = clipboard::trigger_voice_input(delay_ms)
ToggleTrigger ==
    /\ twPc = "trigger"
    /\ vcPc' = voice_call(rpPlatform).pc
    /\ vcResult' = voice_call(rpPlatform).result
    /\ twPc' = "idle"
    /\ UNCHANGED <<vcDelay, vcTrace, vcHeld>>
    /\ UNCHANGED <<window_visible, locks, voice_enabled, voice_toggle_on, twCaptured, twVoice,
                   spPc, spShortcut, cySnapshot, spSnapshot>>
    /\ UNCHANGED <<hvars, rvars, ovars, kvars, svars, nvars>>

\* the frontend on submit: the window is hidden and simulate_paste invoked
SubmitHide ==
    /\ window_visible
    /\ spPc = 0
    /\ window_visible' = FALSE
    /\ spPc' = 1
    /\ spSnapshot' = cySnapshot
    /\ spShortcut' = <<>>
    /\ UNCHANGED <<locks, voice_enabled, voice_toggle_on, twPc, twCaptured, twVoice, cySnapshot>>
    /\ UNCHANGED <<hvars, rvars, ovars, kvars, svars, vvars, nvars>>

\* the next statement of the simulate_paste command; the last one calls
\* clipboard::simulate_paste(&shortcut)
SimulatePasteStep ==
    /\ spPc \in 1..Len(simulate_paste_steps)
    /\ LET st == simulate_paste_steps[spPc]
       IN  /\ st \in {"lock_config", "lock_previous_process"} => locks[LockOf(st)] = "none"
           /\ locks' = IF st \in {"lock_config", "lock_previous_process"}
                       THEN [locks EXCEPT ![LockOf(st)] = "sp"]
                       ELSE IF st \in {"drop_config", "drop_previous_process"}
                       THEN [locks EXCEPT ![LockOf(st)] = "none"]
                       ELSE locks
           /\ spShortcut' = IF st = "resolve"
                            THEN resolve(previous_process, app_overrides, simulate_paste_shortcut)
                            ELSE spShortcut
           /\ IF st = "replay"
              THEN /\ rpShortcut' = spShortcut
                   /\ rpPc' = "start"
                   /\ rpModifiers' = <<>>
                   /\ rpMainKey' = "none"
                   /\ rpInputs' = <<>>
                   /\ rpInjected' = <<>>
                   /\ rpResult' = "none"
                   /\ UNCHANGED <<rpPlatform, rpTokens>>
              ELSE UNCHANGED rvars
    /\ spPc' = spPc + 1
    /\ UNCHANGED <<window_visible, voice_enabled, voice_toggle_on, twPc, twCaptured, twVoice,
                   cySnapshot, spSnapshot>>
    /\ UNCHANGED <<hvars, ovars, kvars, svars, vvars, nvars>>

\* the simulate_paste command returns what clipboard::simulate_paste returned
SimulatePasteReturn ==
    /\ spPc = Len(simulate_paste_steps) + 1
    /\ rpPc = "done"
    /\ spPc' = 0
    /\ UNCHANGED <<window_visible, locks, voice_enabled, voice_toggle_on, twPc, twCaptured,
                   twVoice, spShortcut, cySnapshot, spSnapshot>>
    /\ UNCHANGED <<hvars, rvars, ovars, kvars, svars, vvars, nvars>>

NextCycle ==
    \/ ToggleCall
    \/ ToggleHide
    \/ \E process_name \in get_foreground_process_name(rpPlatform) : ToggleCapture(process_name)
    \/ ToggleStore
    \/ ToggleShow
    \/ ToggleLockConfig
    \/ ToggleDropConfig
    \/ ToggleReadVoiceToggle
    \/ ToggleTrigger
    \/ SubmitHide
    \/ SimulatePasteStep
    \/ SimulatePasteReturn
    \/ NextReplay

SpecCycle == InitCycle /\ [][NextCycle]_vars

(***************************************************************************)
(* The flag-based listener (hotkey.rs, main.rs): the listener thread       *)
(* stores the toggle flag on a WM_HOTKEY message with the registered id,   *)
(* and update, on the UI thread, swaps it to false and toggles `visible`.  *)
(***************************************************************************)
MaxPresses == 2

\* the messages GetMessageW hands to the loop
ListenerMessages ==
    [message : {"WM_HOTKEY"}, id : 1..Len(hotkey_options)]
        \cup {[message |-> "WM_TIMER", id |-> 0]}

\* a mutation of on_message: every WM_HOTKEY stores the flag
on_message_any_id(msg, registered_id, flag) ==
    IF msg.message = "WM_HOTKEY" THEN TRUE ELSE flag

\* listen_hotkey: the body of the message loop; the flag after the message
on_message(msg, registered_id, flag) ==
    IF msg.message = "WM_HOTKEY" /\ msg.id = registered_id THEN TRUE ELSE flag

\* a mutation of update: the flag is read and not cleared
update_loading(flag, visible, input) ==
    LET toggled == IF flag THEN ~visible ELSE visible
    IN  [flag |-> flag,
         visible |-> IF toggled /\ input = "close" THEN FALSE ELSE toggled]

\* PromptLineApp::update: the swap of the flag, the toggle, and the Close
\* button or Esc of the visible window: [flag, visible]
update(flag, visible, input) ==
    LET toggled == IF flag THEN ~visible ELSE visible
    IN  [flag |-> FALSE,
         visible |-> IF toggled /\ input = "close" THEN FALSE ELSE toggled]

InitFlag ==
    /\ HistoryIdle
    /\ ReplayIdle
    /\ OverridesIdle
    /\ SubmitIdle
    /\ VoiceIdle
    /\ CycleIdle
    /\ hkProgram = "egui"
    /\ hkLaunch = <<>>
    /\ hkCandidates = hotkey_options
    /\ hkPc = "trying"
    /\ hkNext = 1
    /\ hkAttempts = <<>>
    /\ hkOsTable = {}
    /\ hkBound = NoHotkey
    /\ hkWarned = <<>>
    /\ hkRunning = TRUE
    /\ hkVisible = TRUE
    /\ toggle_flag = FALSE
    /\ flPresses = 0
    /\ flLast = NoStep
    /\ ConfigIdle
    /\ LocksIdle
    /\ PairIdle

\* listen_hotkey: one message of the loop
ListenerMessage(msg) ==
    /\ hkPc = "listening"
    /\ msg.message = "WM_HOTKEY" /\ msg.id = hkBound.id => flPresses < MaxPresses
    /\ toggle_flag' = on_message(msg, hkBound.id, toggle_flag)
    /\ flPresses' = IF msg.message = "WM_HOTKEY" /\ msg.id = hkBound.id
                    THEN flPresses + 1 ELSE flPresses
    /\ flLast' = [op |-> "message", message |-> msg.message, id |-> msg.id]
    /\ UNCHANGED <<hvars, rvars, ovars, kvars, svars, vvars, cvars, gvars, lkPc, qvars>>

\* PromptLineApp::update: one frame; the Close button and Esc reach only a
\* window that is shown
UiUpdate(input) ==
    /\ hkRunning
    /\ input = "close" => hkVisible
    /\ toggle_flag' = update(toggle_flag, hkVisible, input).flag
    /\ hkVisible' = update(toggle_flag, hkVisible, input).visible
    /\ flPresses' = 0
    /\ flLast' = [op |-> "update", message |-> input, id |-> 0]
    /\ UNCHANGED <<hkProgram, hkLaunch, hkCandidates, hkPc, hkNext, hkAttempts, hkOsTable,
                   hkBound, hkWarned, hkRunning>>
    /\ UNCHANGED <<hvars, rvars, ovars, svars, vvars, cvars, gvars, lkPc, qvars>>

NextFlag ==
    \/ \E accepted \in BOOLEAN : TryRegister(accepted)
    \/ \E msg \in ListenerMessages : ListenerMessage(msg)
    \/ \E input \in {"none", "close"} : UiUpdate(input)
    \/ ListenEnd

SpecFlag == InitFlag /\ [][NextFlag]_vars

(***************************************************************************)
(* save_config (lib.rs) beside the hotkey registration of run and the      *)
(* simulate_paste command.  A configuration is                             *)
(* [launch, app_overrides, simulate_paste_shortcut].                       *)
(***************************************************************************)
DefaultLaunch ==
    <<"C", "t", "r", "l", "+", "S", "h", "i", "f", "t", "+", "S", "p", "a", "c", "e">>
AltP == <<"A", "l", "t", "+", "P">>

\* the configurations run loads and save_config is given
Configs ==
    [launch : {DefaultLaunch, AltP},
     app_overrides : { <<>>, <<[process_name |-> <<"a", "b">>, shortcut |-> ShiftInsert]>> },
     simulate_paste_shortcut : {CtrlV, CtrlShiftV}]

\* the hotkey run would register for a launch shortcut the OS accepts
HotkeyOfLaunch(launch) == LaunchCandidates(launch)[1]

\* a mutation of save_config: the hotkey is registered anew for the saved
\* launch shortcut
save_config_rebinding(new_config, old_config, bound, table, saved) ==
    IF saved
    THEN [ok |-> TRUE, config |-> new_config,
          bound |-> HotkeyOfLaunch(new_config.launch),
          table |-> (table \ {bound}) \cup {HotkeyOfLaunch(new_config.launch)}]
    ELSE [ok |-> FALSE, config |-> old_config, bound |-> bound, table |-> table]

\* save_config: new_config.save()? and the assignment under the config
\* lock; `saved` is the result of the save: [ok, config, bound, table]
save_config(new_config, old_config, bound, table, saved) ==
    IF saved
    THEN [ok |-> TRUE, config |-> new_config, bound |-> bound, table |-> table]
    ELSE [ok |-> FALSE, config |-> old_config, bound |-> bound, table |-> table]

\* the live configuration
LiveConfig ==
    [launch |-> cfgLaunch, app_overrides |-> app_overrides,
     simulate_paste_shortcut |-> simulate_paste_shortcut]

InitConfig ==
    /\ HistoryIdle
    /\ rpPlatform \in {"windows", "other"}
    /\ rpTokens = <<>>
    /\ rpShortcut = <<>>
    /\ rpPc = "idle"
    /\ rpModifiers = <<>>
    /\ rpMainKey = "none"
    /\ rpInputs = <<>>
    /\ rpInjected = <<>>
    /\ rpResult = "none"
    /\ SubmitIdle
    /\ VoiceIdle
    /\ CycleIdle
    /\ FlagIdle
    /\ LocksIdle
    /\ PairIdle
    /\ hkProgram = "tauri"
    /\ hkLaunch \in {DefaultLaunch, AltP}
    /\ hkCandidates = LaunchCandidates(hkLaunch)
    /\ hkPc = "trying"
    /\ hkNext = 1
    /\ hkAttempts = <<>>
    /\ hkOsTable = {}
    /\ hkBound = NoHotkey
    /\ hkWarned = <<>>
    /\ hkRunning = FALSE
    /\ hkVisible = FALSE
    /\ previous_process \in {NoProcess, [present |-> TRUE, name |-> <<"A", "b">>]}
    /\ app_overrides = <<>>
    /\ simulate_paste_shortcut = CtrlV
    /\ rsPc = "idle"
    /\ cfgLaunch = hkLaunch
    /\ scLast = [ok |-> FALSE, config |-> NoConfig]

\* save_config(new_config) with the result of new_config.save()
SaveConfig(new_config, saved) ==
    /\ hkPc \in {"listening", "unregistered"}
    /\ LET r == save_config(new_config, LiveConfig, hkBound, hkOsTable, saved)
       IN  /\ cfgLaunch' = r.config.launch
           /\ app_overrides' = r.config.app_overrides
           /\ simulate_paste_shortcut' = r.config.simulate_paste_shortcut
           /\ hkBound' = r.bound
           /\ hkOsTable' = r.table
           /\ scLast' = [ok |-> r.ok, config |-> new_config]
    /\ UNCHANGED <<previous_process, rsPc>>
    /\ UNCHANGED <<hkProgram, hkLaunch, hkCandidates, hkPc, hkNext, hkAttempts, hkWarned,
                   hkRunning, hkVisible>>
    /\ UNCHANGED <<hvars, rvars, svars, vvars, cvars, fvars, lkPc, qvars>>

\* the frontend invokes the simulate_paste command
SimulatePasteCall ==
    /\ hkPc \in {"listening", "unregistered"}
    /\ rsPc \in {"idle", "resolved"}
    /\ rpPc \in {"idle", "done"}
    /\ rsPc' = "called"
    /\ rpPc' = "idle"
    /\ rpShortcut' = <<>>
    /\ rpModifiers' = <<>>
    /\ rpMainKey' = "none"
    /\ rpInputs' = <<>>
    /\ rpInjected' = <<>>
    /\ rpResult' = "none"
    /\ UNCHANGED <<rpPlatform, rpTokens>>
    /\ UNCHANGED <<previous_process, app_overrides, simulate_paste_shortcut>>
    /\ UNCHANGED <<hvars, kvars, avars>>

NextConfig ==
    \/ \E accepted \in BOOLEAN : TryRegister(accepted)
    \/ \E new_config \in Configs : \E saved \in BOOLEAN : SaveConfig(new_config, saved)
    \/ SimulatePasteCall
    \/ Resolve
    \/ NextReplay

SpecConfig == InitConfig /\ [][NextConfig]_vars

(***************************************************************************)
(* The four mutexes of AppState under every handler of lib.rs.  A handler  *)
(* is the sequence of its statements that lock, unlock or run without a    *)
(* lock change; a guard that is a temporary of one statement is locked by  *)
(* that statement and unlocked at its end.  The handlers run on threads of *)
(* their own, one call of each at a time.                                  *)
(***************************************************************************)
Lock(l) == [op |-> "lock", lock |-> l]
Unlock(l) == [op |-> "unlock", lock |-> l]
Work(w) == [op |-> w, lock |-> "none"]

\* a mutation of handler_steps: toggle_window reads the configuration while
\* it holds the previous_process lock
handler_steps_nested_toggle(h) ==
    IF h = "toggle_window"
    THEN << Lock("previous_process"), Work("show"), Lock("config"),
            Unlock("config"), Unlock("previous_process"),
            Lock("voice_toggle_on"), Unlock("voice_toggle_on"), Work("trigger_voice_input") >>
    ELSE IF h = "simulate_paste"
    THEN << Work("sleep"), Lock("config"), Lock("previous_process"), Work("resolve"),
            Unlock("config"), Unlock("previous_process"), Work("replay") >>
    ELSE << Lock("history"), Unlock("history") >>

\* the statements of each handler, in program order
handler_steps(h) ==
    IF h = "get_history" THEN << Lock("history"), Unlock("history") >>
    ELSE IF h = "clear_history" THEN << Lock("history"), Unlock("history") >>
    ELSE IF h = "paste_and_save"
    THEN << Lock("history"), Unlock("history"), Work("copy_to_clipboard") >>
    ELSE IF h = "simulate_paste"
    THEN << Work("sleep"), Lock("config"), Lock("previous_process"), Work("resolve"),
            Unlock("config"), Unlock("previous_process"), Work("replay") >>
    ELSE IF h = "get_config" THEN << Lock("config"), Unlock("config") >>
    ELSE IF h = "save_config"
    THEN << Work("set_size"), Work("save"), Lock("config"), Unlock("config") >>
    ELSE IF h = "get_voice_toggle"
    THEN << Lock("voice_toggle_on"), Unlock("voice_toggle_on") >>
    ELSE IF h = "set_voice_toggle"
    THEN << Lock("voice_toggle_on"), Unlock("voice_toggle_on") >>
    ELSE << Work("get_foreground_process_name"),
            Lock("previous_process"), Unlock("previous_process"), Work("show"),
            Lock("config"), Unlock("config"),
            Lock("voice_toggle_on"), Unlock("voice_toggle_on"),
            Work("trigger_voice_input") >>

InitLocks ==
    /\ HistoryIdle
    /\ ReplayIdle
    /\ OverridesIdle
    /\ HotkeyIdle
    /\ SubmitIdle
    /\ VoiceIdle
    /\ FlagIdle
    /\ ConfigIdle
    /\ PairIdle
    /\ window_visible = FALSE
    /\ locks = NoLocks
    /\ voice_enabled = TRUE
    /\ voice_toggle_on = TRUE
    /\ twPc = "idle"
    /\ twCaptured = NoProcess
    /\ twVoice = FALSE
    /\ spPc = 0
    /\ spShortcut = <<>>
    /\ cySnapshot = NoProcess
    /\ spSnapshot = NoProcess
    /\ lkPc = [h \in Handlers |-> 0]

\* a handler is invoked
HandlerCall(h) ==
    /\ lkPc[h] = 0
    /\ lkPc' = [lkPc EXCEPT ![h] = 1]
    /\ UNCHANGED <<window_visible, locks, voice_enabled, voice_toggle_on, twPc, twCaptured,
                   twVoice, spPc, spShortcut, cySnapshot, spSnapshot>>
    /\ UNCHANGED <<hvars, rvars, ovars, kvars, svars, vvars, fvars, gvars, qvars>>

\* the next statement of a handler; a lock statement waits for the mutex
HandlerStep(h) ==
    /\ lkPc[h] \in 1..Len(handler_steps(h))
    /\ LET st == handler_steps(h)[lkPc[h]]
       IN  /\ st.op = "lock" => locks[st.lock] = "none"
           /\ locks' = IF st.op = "lock" THEN [locks EXCEPT ![st.lock] = h]
                       ELSE IF st.op = "unlock" THEN [locks EXCEPT ![st.lock] = "none"]
                       ELSE locks
    /\ lkPc' = [lkPc EXCEPT ![h] = IF lkPc[h] = Len(handler_steps(h)) THEN 0 ELSE lkPc[h] + 1]
    /\ UNCHANGED <<window_visible, voice_enabled, voice_toggle_on, twPc, twCaptured,
                   twVoice, spPc, spShortcut, cySnapshot, spSnapshot>>
    /\ UNCHANGED <<hvars, rvars, ovars, kvars, svars, vvars, fvars, gvars, qvars>>

NextLocks ==
    \/ \E h \in Handlers : HandlerCall(h)
    \/ \E h \in Handlers : HandlerStep(h)

SpecLocks == InitLocks /\ [][NextLocks]_vars

(***************************************************************************)
(* Two paste_and_save commands on threads of their own (lib.rs): each adds *)
(* its text under the history lock, which it releases at the end of that   *)
(* statement, and then copies it to the clipboard.                         *)
(***************************************************************************)
PairTexts == { <<SP>>, TextA, TextC }

InitPair ==
    /\ file = MissingFile
    /\ alive = TRUE
    /\ entries = <<>>
    /\ max_entries \in 1..MaxEntriesBound
    /\ now = 1
    /\ lastOp = [op |-> "new", arg |-> <<>>, ok |-> TRUE, fault |-> "none"]
    /\ found = <<>>
    /\ ideal = <<>>
    /\ faults = 0
    /\ ReplayIdle
    /\ OverridesIdle
    /\ HotkeyIdle
    /\ VoiceIdle
    /\ CycleIdle
    /\ FlagIdle
    /\ ConfigIdle
    /\ LocksIdle
    /\ clipboard \in {ClipEmpty, ClipText(<<"o">>)}
    /\ psPc = "idle"
    /\ psText = <<>>
    /\ psResult = "none"
    /\ psClipBefore = clipboard
    /\ pqPc = [p \in Callers |-> "idle"]
    /\ pqText = [p \in Callers |-> <<>>]
    /\ pqResult = [p \in Callers |-> "none"]

\* paste_and_save(text) is invoked: the blank text returns Ok at once
PairCall(p, text) ==
    /\ pqPc[p] = "idle"
    /\ pqText' = [pqText EXCEPT ![p] = text]
    /\ pqPc' = [pqPc EXCEPT ![p] = IF IsBlank(text) THEN "done" ELSE "add"]
    /\ pqResult' = [pqResult EXCEPT ![p] = IF IsBlank(text) THEN "Ok" ELSE "none"]
    /\ UNCHANGED <<hvars, rvars, ovars, kvars, svars, vvars, cvars, fvars, gvars, lkPc>>

\* paste_and_save: state.history.lock().unwrap().add(text.clone())?
PairAdd(p, fault) ==
    /\ pqPc[p] = "add"
    /\ now <= MaxClock
    /\ fault.kind # "none" => faults < MaxFaults
    /\ faults' = IF fault.kind # "none" THEN faults + 1 ELSE faults
    /\ LET r == add(entries, max_entries, file, pqText[p], now, fault)
           a == after_add(r.ok)
       IN  /\ entries' = r.entries
           /\ file' = r.file
           /\ lastOp' = [op |-> "add", arg |-> pqText[p], ok |-> r.ok, fault |-> fault.kind]
           /\ pqPc' = [pqPc EXCEPT ![p] = a.pc]
           /\ pqResult' = [pqResult EXCEPT ![p] = a.result]
    /\ now' = now + 1
    /\ ideal' = Append(ideal, NewEntry(pqText[p], now))
    /\ found' = <<>>
    /\ UNCHANGED <<alive, max_entries, pqText>>
    /\ UNCHANGED <<rvars, ovars, kvars, svars, vvars, cvars, fvars, gvars, lkPc>>

\* paste_and_save: clipboard::copy_to_clipboard(&text)?
PairCopy(p, fault) ==
    /\ pqPc[p] = "copy"
    /\ LET c == copy_to_clipboard(clipboard, pqText[p], fault)
       IN  /\ clipboard' = c.clipboard
           /\ pqResult' = [pqResult EXCEPT ![p] = IF c.ok THEN "Ok" ELSE "ClipboardError"]
    /\ pqPc' = [pqPc EXCEPT ![p] = "done"]
    /\ UNCHANGED <<psPc, psText, psResult, psClipBefore, pqText>>
    /\ UNCHANGED <<hvars, rvars, ovars, kvars, vvars, cvars, fvars, gvars, lkPc>>

NextPair ==
    \/ \E p \in Callers : \E text \in PairTexts : PairCall(p, text)
    \/ \E p \in Callers : \E fault \in {NoFault, OpenFault} : PairAdd(p, fault)
    \/ \E p \in Callers : \E fault \in {"none", "set_text"} : PairCopy(p, fault)

SpecPair == InitPair /\ [][NextPair]_vars

(***************************************************************************)
(* Properties.  The helpers below state what the claims expect without     *)
(* using the operators that model the code.                                *)
(***************************************************************************)
\* a text that is empty or only whitespace
AllWhitespace(text) == \A i \in 1..Len(text) : text[i] \in {SP, NL}

\* the last k elements of a sequence, most recent first
MostRecentFirst(seq, k) == [i \in 1..k |-> seq[Len(seq) + 1 - i]]

\* the texts of a sequence of entries
TextsOf(es) == [i \in 1..Len(es) |-> es[i].text]

\* q occurs in text when letters are compared regardless of case
SameLetter(a, b) == a = b \/ UpperChar(a) = b \/ a = UpperChar(b)
OccursIgnoringCase(q, text) ==
    \E off \in 0..(Len(text) - Len(q)) :
        \A j \in 1..Len(q) : SameLetter(text[off + j], q[j])

\* piece occurs in data as a run of consecutive characters
Occurs(piece, data) ==
    \E off \in 0..(Len(data) - Len(piece)) :
        \A j \in 1..Len(piece) : data[off + j] = piece[j]

\* e is one of the entries of es
HasEntry(es, e) == \E i \in 1..Len(es) : es[i] = e

\* the entry the last non-blank add created
LastAdded == [text |-> lastOp.arg, timestamp |-> now - 1]

\* C1: after History::new and after every add, the store holds at most
\* max_entries entries.
C1_LenWithinBound == alive => Len(entries) <= max_entries

\* C1 witness: an add into a full store of two entries has evicted one.
C1_Witness ==
    /\ alive
    /\ lastOp.op = "add"
    /\ max_entries = 2
    /\ Len(ideal) > 2
    /\ Len(entries) = 2

\* C2: entries() returns exactly the min(n, max_entries) most recently received
\* entries, the last added first; with max_entries = 2, adding a, b, c to an
\* empty store leaves exactly [c, b].
C2_MostRecentFirst ==
    alive =>
        /\ Entries(entries) = MostRecentFirst(ideal, Min(Len(ideal), max_entries))
        /\ (max_entries = 2 /\ TextsOf(ideal) = <<TextA, TextB, TextC>>)
              => TextsOf(Entries(entries)) = <<TextC, TextB>>

\* C2 witness: a, b and c were added in this order to an empty store bounded
\* by two entries.
C2_Witness ==
    /\ alive
    /\ lastOp.op = "add"
    /\ max_entries = 2
    /\ TextsOf(ideal) = <<TextA, TextB, TextC>>
    /\ ideal[1].timestamp = 1
    /\ TextsOf(Entries(entries)) = <<TextC, TextB>>

\* C3: an add of an empty or whitespace-only text returns Ok and changes
\* neither the in-memory sequence nor the durable log.
C3_BlankAddIsNoOp ==
    [][(lastOp'.op = "add" /\ AllWhitespace(lastOp'.arg))
          => (lastOp'.ok /\ entries' = entries /\ file' = file)]_vars

\* C3 witness: a whitespace-only text was added to a store that holds entries
\* and a log that holds records.
C3_Witness ==
    /\ lastOp.op = "add"
    /\ lastOp.arg = <<SP, NL>>
    /\ lastOp.ok
    /\ Len(entries) = 2
    /\ file.data # <<>>

\* C4: search(q) returns, most recent first, exactly the entries whose text
\* contains q regardless of letter case; for an empty or blank q it returns
\* exactly entries().
C4_SearchResult ==
    lastOp.op = "get_history" =>
        LET q == lastOp.arg
            recent == MostRecentFirst(entries, Len(entries))
            Matches(e) == OccursIgnoringCase(q, e.text)
        IN  IF AllWhitespace(q)
            THEN found = Entries(entries) /\ found = recent
            ELSE found = SelectSeq(recent, Matches)

\* C4 witness: a query in another letter case than the stored text selected
\* one of two entries.
C4_Witness ==
    /\ lastOp.op = "get_history"
    /\ lastOp.arg = <<"a", SP>>
    /\ Len(entries) = 2
    /\ TextsOf(found) = << <<"A", SP, "b">> >>

\* C5: get_history (search) changes neither the in-memory sequence nor the
\* durable log, whatever adds ran before it.
C5_SearchIsReadOnly ==
    [][lastOp'.op = "get_history" => (entries' = entries /\ file' = file)]_vars

\* C5 witness: a search that found something ran after two adds.
C5_Witness ==
    /\ lastOp.op = "get_history"
    /\ now = 3
    /\ Len(entries) = 2
    /\ found # <<>>
    /\ file.data # <<>>


\* C6: a store reloaded from the durable log right after a successful add of a
\* non-blank text, with the same max_entries, has the entries() of the store
\* before the reload: same texts, same instants, same order.
C6_RoundTrip ==
    [][(/\ lastOp.op = "add" /\ lastOp.ok /\ ~AllWhitespace(lastOp.arg)
        /\ lastOp'.op = "new" /\ lastOp'.fault = "none")
          => (alive' /\ Entries(entries') = Entries(entries))]_vars

\* C6 witness: a store reloaded without any I/O failure holds two distinct
\* texts added before the reload, one of them with a line feed.
C6_Witness ==
    /\ lastOp.op = "new"
    /\ lastOp.ok
    /\ faults = 0
    /\ max_entries = 2
    /\ TextsOf(entries) = <<TextB, TextC>>
    /\ entries[1].timestamp = 1
    /\ entries[2].timestamp = 2

\* the well-formed records of a log written from the lines ds, in file order
RECURSIVE GoodEntries(_)
GoodEntries(ds) ==
    IF ds = <<>> THEN <<>>
    ELSE IF Head(ds).kind = "record"
         THEN <<Head(ds).entry>> \o GoodEntries(Tail(ds))
         ELSE GoodEntries(Tail(ds))

\* what C7 expects of a load of the log written from the lines ds
LoadedAsExpected(ds) ==
    LET good == GoodEntries(ds)
        k == Min(Len(good), max_entries)
    IN  /\ lastOp.ok
        /\ alive
        /\ entries = SubSeq(good, Len(good) - k + 1, Len(good))

\* C7: load of a log holding any mix of well-formed and malformed records
\* succeeds and yields exactly the well-formed records in file order, cut to
\* the last max_entries; a malformed record never makes load fail.
C7_LoadSkipsMalformed ==
    (lastOp.op = "new" /\ lastOp.fault = "none" /\ file.exists) =>
        \A ds \in LineSeqs :
            file.data = RenderFile(ds) => LoadedAsExpected(ds)

\* C7, for logs whose every line is valid UTF-8: the same statement holds.
C7_LoadSkipsMalformedDecodable ==
    (lastOp.op = "new" /\ lastOp.fault = "none" /\ file.exists) =>
        \A ds \in LineSeqs :
            (/\ file.data = RenderFile(ds)
             /\ \A i \in 1..Len(ds) : ds[i].kind # "invalid")
                => LoadedAsExpected(ds)

\* C8 as amended: when the durable write fails during an add of a non-blank
\* text, add returns an error, the in-memory sequence already holds the new
\* entry with eviction applied, and the durable log holds no complete line
\* (record and line feed) of the new entry.
C8_FailedAddKeepsMemory ==
    (lastOp.op = "add" /\ ~lastOp.ok) =>
        /\ ~AllWhitespace(lastOp.arg)
        /\ lastOp.fault \in {"open", "write"}
        /\ ideal # <<>> /\ ideal[Len(ideal)] = LastAdded
        /\ Entries(entries) = MostRecentFirst(ideal, Min(Len(ideal), max_entries))
        /\ max_entries > 0 => entries[Len(entries)] = LastAdded
        /\ ~Occurs(to_string(LastAdded) \o <<NL>>, file.data)

\* C8 witness: the writeln! of an add failed after the sequence of two entries
\* had received a third one.
C8_Witness ==
    /\ lastOp.op = "add"
    /\ ~lastOp.ok
    /\ lastOp.fault = "write"
    /\ max_entries = 2
    /\ Len(ideal) = 3
    /\ Len(entries) = 2

\* C8 as stated: after a failed add the in-memory sequence holds the new entry
\* and the durable log does not reflect it: a store loaded from the log does
\* not hold the new entry.
C8_FailedAddNotInLog ==
    (lastOp.op = "add" /\ ~lastOp.ok /\ max_entries > 0) =>
        /\ entries[Len(entries)] = LastAdded
        /\ ~HasEntry(new(file, max_entries, "none").entries, LastAdded)

\* C9: clear_history that returns Ok leaves the in-memory sequence empty and
\* the durable log truncated, so that entries() is empty and a store reloaded
\* from the log is empty; on an I/O failure it returns an error.
C9_ClearEmpties ==
    lastOp.op = "clear" =>
        /\ lastOp.ok =>
              /\ Entries(entries) = <<>>
              /\ file = [exists |-> TRUE, data |-> <<>>]
              /\ new(file, max_entries, "none") = [ok |-> TRUE, entries |-> <<>>]
        /\ lastOp.fault # "none" => ~lastOp.ok

\* C9 witness: a clear succeeded after two adds.
C9_Witness ==
    /\ lastOp.op = "clear"
    /\ lastOp.ok
    /\ now = 3
    /\ faults = 0
    /\ entries = <<>>

\* the modifiers the specification assigns to the tokens ts, in string order
RECURSIVE ModifiersOf(_)
ModifiersOf(ts) ==
    IF ts = <<>> THEN <<>>
    ELSE IF Head(ts).modifier # "none"
         THEN <<Head(ts).modifier>> \o ModifiersOf(Tail(ts))
         ELSE ModifiersOf(Tail(ts))

\* the key and direction of each event of a batch
KeyEvents(inputs) ==
    [i \in 1..Len(inputs) |->
        <<inputs[i].key, IF inputs[i].up THEN "up" ELSE "down">>]

\* C10: the events replay synthesizes are one key-down per modifier in the
\* order of the string, the main key down, the main key up, and one key-up
\* per modifier in the reverse order; for "Ctrl+Shift+V" the batch is exactly
\* Ctrl-down, Shift-down, V-down, V-up, Shift-up, Ctrl-up.
C10_ReplaySequence ==
    /\ rpInputs # <<>> =>
          LET mods == ModifiersOf(rpTokens)
              m == Len(mods)
              ev == KeyEvents(rpInputs)
          IN  /\ rpMainKey # "none"
              /\ Len(ev) = 2 * m + 2
              /\ \A i \in 1..m : ev[i] = <<mods[i], "down">>
              /\ ev[m + 1] = <<rpMainKey, "down">>
              /\ ev[m + 2] = <<rpMainKey, "up">>
              /\ \A i \in 1..m : ev[m + 2 + i] = <<mods[m + 1 - i], "up">>
    /\ (rpPlatform = "windows" /\ rpShortcut = CtrlShiftV /\ rpPc # "start") =>
          KeyEvents(rpInputs) =
              << <<"VK_CONTROL", "down">>, <<"VK_SHIFT", "down">>, <<"V", "down">>,
                 <<"V", "up">>, <<"VK_SHIFT", "up">>, <<"VK_CONTROL", "up">> >>

\* C10 witness: the replay of "Ctrl+Shift+V" injected its whole batch.
C10_Witness ==
    /\ rpShortcut = CtrlShiftV
    /\ rpPc = "done"
    /\ rpResult = "Ok"
    /\ Len(rpInjected) = 6
    /\ rpInjected = rpInputs

\* two names are equal ignoring the case of their letters
EqualIgnoringCase(a, b) ==
    /\ Len(a) = Len(b)
    /\ \A i \in 1..Len(a) : SameLetter(a[i], b[i])

\* the positions of the overrides that match the snapshot
MatchingOverrides ==
    { i \in 1..Len(app_overrides) :
        /\ previous_process.present
        /\ app_overrides[i].process_name # <<>>
        /\ EqualIgnoringCase(app_overrides[i].process_name, previous_process.name) }

\* C11: the shortcut resolved by simulate_paste is the shortcut of the first
\* override in list order whose process_name is non-empty and equals the
\* foreground snapshot ignoring case, and the default shortcut when the
\* snapshot is absent or no override matches; an override with an empty
\* process_name is never the one chosen.
C11_ResolveFirstMatch ==
    rsPc = "resolved" =>
        /\ MatchingOverrides = {} => rpShortcut = simulate_paste_shortcut
        /\ MatchingOverrides # {} =>
              \E i \in MatchingOverrides :
                  /\ \A j \in MatchingOverrides : i <= j
                  /\ rpShortcut = app_overrides[i].shortcut
        /\ ~previous_process.present => rpShortcut = simulate_paste_shortcut
        /\ (\A i \in 1..Len(app_overrides) : app_overrides[i].process_name = <<>>)
              => rpShortcut = simulate_paste_shortcut

\* C11 witness: the second of two matching overrides, written in another
\* letter case than the snapshot, is passed over for the first; the shortcuts
\* of the two and the default all differ.
C11_Witness ==
    /\ rsPc = "resolved"
    /\ previous_process = [present |-> TRUE, name |-> <<"A", "b">>]
    /\ Len(app_overrides) = 2
    /\ app_overrides[1] = [process_name |-> <<"a", "b">>, shortcut |-> ShiftInsert]
    /\ app_overrides[2] = [process_name |-> <<"A", "B">>, shortcut |-> CtrlShiftV]
    /\ simulate_paste_shortcut = CtrlV
    /\ rpShortcut = ShiftInsert

\* the attempts made so far went through the candidates in list order
AttemptsInOrder ==
    /\ Len(hkAttempts) <= Len(hkCandidates)
    /\ \A i \in 1..Len(hkAttempts) :
          /\ hkAttempts[i].index = i
          /\ hkAttempts[i].name = hkCandidates[i].name

\* the positions of the attempts the OS accepted
AcceptedAttempts == { i \in 1..Len(hkAttempts) : hkAttempts[i].accepted }

\* C12: the registration attempts the candidates strictly in list order and
\* stops at the first one the OS accepts: only the last attempt can be an
\* accepted one, the registrar is then Registered and bound to that
\* candidate, no later candidate is ever attempted, and the OS never holds
\* more than one hotkey of the process.
C12_FirstAcceptedWins ==
    hkProgram # "idle" =>
        /\ AttemptsInOrder
        /\ \A i \in AcceptedAttempts : i = Len(hkAttempts)
        /\ AcceptedAttempts # {} =>
              /\ hkPc \in {"listening", "ended"}
              /\ hkPc = "listening" =>
                    /\ hkBound = hkCandidates[Len(hkAttempts)]
                    /\ hkOsTable = {hkBound}
        /\ AcceptedAttempts = {} => (hkBound = NoHotkey /\ hkOsTable = {})
        /\ hkPc = "listening" => AcceptedAttempts # {}
        /\ hkPc = "trying" => hkNext = Len(hkAttempts) + 1
        /\ Cardinality(hkOsTable) <= 1

\* C12 witness: the first candidate was rejected, the second accepted, and
\* the hotkey has since been pressed; three candidates were never attempted.
C12_Witness ==
    /\ hkProgram = "tauri"
    /\ Len(hkCandidates) = 5
    /\ Len(hkAttempts) = 2
    /\ ~hkAttempts[1].accepted
    /\ hkAttempts[2].accepted
    /\ hkPc = "listening"
    /\ hkBound = fallback_shortcuts[1]
    /\ hkVisible

\* C13: when the OS has rejected every candidate, the registrar is
\* Unregistered with no hotkey bound, a warning has been reported and the
\* application runs: the surface can still be toggled.
C13_AllRejectedIsNotFatal ==
    /\ (hkProgram # "idle" /\ Len(hkAttempts) = Len(hkCandidates)
        /\ AcceptedAttempts = {}) =>
          /\ hkPc = "unregistered"
          /\ hkBound = NoHotkey
          /\ hkOsTable = {}
          /\ hkWarned = <<"RegistrationError">>
          /\ hkRunning
          /\ (hkProgram = "tauri" \/ hkVisible) => ENABLED SurfaceToggle
    /\ hkPc = "unregistered" =>
          (Len(hkAttempts) = Len(hkCandidates) /\ AcceptedAttempts = {})

\* C13 witness: all five candidates of a configured launch shortcut were
\* rejected and the surface has been shown from the tray afterwards.
C13_Witness ==
    /\ hkProgram = "tauri"
    /\ hkPc = "unregistered"
    /\ Len(hkAttempts) = 5
    /\ hkWarned # <<>>
    /\ hkRunning
    /\ hkVisible
    /\ hkLaunch = <<"A", "l", "t", "+", "P">>

\* the errors of the parse of a shortcut string
ParseErrors == {"EmptyShortcut", "NoMainKey", "UnknownKey"}

\* the replay has parsed its shortcut string on a platform with injection
Parsed == rpPlatform = "windows" /\ rpPc \in {"built", "done"}

\* the key a token names, "none" for a token that names no known key
KeyOfToken(t) ==
    IF t.chars = <<"V">> THEN "V"
    ELSE IF t.chars = <<SP, "c", SP>> THEN "C"
    ELSE "none"

\* the positions of the tokens that are not modifier tokens
NonModifierPositions == { i \in 1..Len(rpTokens) : rpTokens[i].modifier = "none" }

\* the last position of a non-empty set of positions
LastOf(ps) == CHOOSE i \in ps : \A j \in ps : j <= i

\* a token spelled Cmd or Command in some letter case
SpelledCmd(t) ==
    to_uppercase(t.chars) \in { <<"C", "M", "D">>, <<"C", "O", "M", "M", "A", "N", "D">> }

NoCmdToken == \A i \in 1..Len(rpTokens) : ~SpelledCmd(rpTokens[i])

VCtrl == <<"V", "+", "C", "t", "r", "l">>

\* C14: the parse classifies the tokens independently of their position: for
\* a string with one non-modifier token that names a key, at any position,
\* the modifiers are the modifier tokens in the order of the string and the
\* main key is that token; "Ctrl+Shift+V" gives [Ctrl, Shift] with V and
\* "V+Ctrl" gives [Ctrl] with V.  (Strings without a Cmd or Command token.)
C14_PositionIndependent ==
    Parsed =>
        /\ (/\ Cardinality(NonModifierPositions) = 1
            /\ KeyOfToken(rpTokens[LastOf(NonModifierPositions)]) # "none"
            /\ NoCmdToken) =>
              /\ rpResult \notin ParseErrors
              /\ rpModifiers = ModifiersOf(rpTokens)
              /\ rpMainKey = KeyOfToken(rpTokens[LastOf(NonModifierPositions)])
        /\ rpShortcut = CtrlShiftV =>
              (rpModifiers = <<"VK_CONTROL", "VK_SHIFT">> /\ rpMainKey = "V")
        /\ rpShortcut = VCtrl =>
              (rpModifiers = <<"VK_CONTROL">> /\ rpMainKey = "V"
               /\ rpResult \notin ParseErrors)

\* C14 witness: "V+Ctrl" was parsed and its batch injected.
C14_Witness ==
    /\ Parsed
    /\ rpShortcut = VCtrl
    /\ rpResult = "Ok"
    /\ KeyEvents(rpInjected) =
          << <<"VK_CONTROL", "down">>, <<"V", "down">>, <<"V", "up">>,
             <<"VK_CONTROL", "up">> >>

\* C15: the parse of the empty shortcut string fails with EmptyShortcut.
C15_EmptyShortcut ==
    (Parsed /\ rpShortcut = <<>>) => rpResult = "EmptyShortcut"

\* C15: what the parse of the empty string returns is the error of an
\* unknown key.
C15_EmptyIsUnknownKey ==
    (Parsed /\ rpShortcut = <<>>) =>
        (rpResult = "UnknownKey" /\ rpPc = "done" /\ rpInjected = <<>>)

\* C16: a shortcut string whose tokens are all modifier tokens fails with
\* NoMainKey and no key event is built or injected.  (Strings without a Cmd
\* or Command token.)
C16_NoMainKey ==
    (Parsed /\ NonModifierPositions = {} /\ NoCmdToken) =>
        /\ rpResult = "NoMainKey"
        /\ rpPc = "done"
        /\ rpInputs = <<>>
        /\ rpInjected = <<>>

\* C16 witness: "Ctrl+Shift" was given to the replay.
C16_Witness ==
    /\ Parsed
    /\ rpShortcut = <<"C", "t", "r", "l", "+", "S", "h", "i", "f", "t">>
    /\ rpResult = "NoMainKey"

\* C17 as amended: when a string has more than one non-modifier token and
\* each of them names a known key, the parse succeeds with the last of them
\* as the main key; a non-modifier token that names no known key, at any
\* position, makes the parse fail with UnknownKey.
C17_LastKeyWins ==
    (Parsed /\ NoCmdToken) =>
        /\ (/\ Cardinality(NonModifierPositions) > 1
            /\ \A i \in NonModifierPositions : KeyOfToken(rpTokens[i]) # "none") =>
              /\ rpResult \notin ParseErrors
              /\ rpMainKey = KeyOfToken(rpTokens[LastOf(NonModifierPositions)])
              /\ rpModifiers = ModifiersOf(rpTokens)
        /\ (\E i \in NonModifierPositions : KeyOfToken(rpTokens[i]) = "none") =>
              rpResult = "UnknownKey"

\* C17 witness: "V+Ctrl+ c " was parsed with C as its main key.
C17_Witness ==
    /\ Parsed
    /\ rpShortcut = <<"V", "+", "C", "t", "r", "l", "+", SP, "c", SP>>
    /\ rpMainKey = "C"
    /\ rpResult = "Ok"
    /\ Len(rpInjected) = 4

\* C17 as stated: when a string has more than one non-modifier token the
\* parse succeeds with the last of them as the main key, whatever the
\* earlier non-modifier tokens are.
C17_EarlierTokensIgnored ==
    (/\ Parsed
     /\ NoCmdToken
     /\ Cardinality(NonModifierPositions) > 1
     /\ KeyOfToken(rpTokens[LastOf(NonModifierPositions)]) # "none") =>
        /\ rpResult \notin ParseErrors
        /\ rpMainKey = KeyOfToken(rpTokens[LastOf(NonModifierPositions)])

\* C18: each of the tokens Ctrl, Control, Shift, Alt, Win, Super, Meta, Cmd
\* and Command, in any letter case, is taken as a modifier and never as the
\* main key: a string of such tokens and one token that names a key parses
\* to the modifiers of its tokens, with Win, Super, Meta, Cmd and Command all
\* giving the one super modifier.
C18_ModifierTokens ==
    (/\ Parsed
     /\ Cardinality(NonModifierPositions) = 1
     /\ KeyOfToken(rpTokens[LastOf(NonModifierPositions)]) # "none") =>
        /\ rpResult \notin ParseErrors
        /\ rpModifiers = ModifiersOf(rpTokens)
        /\ rpMainKey = KeyOfToken(rpTokens[LastOf(NonModifierPositions)])

\* C18, for the tokens other than Cmd and Command: Ctrl, Control, Shift, Alt,
\* Win, Super and Meta in any letter case are modifiers of the replay parser,
\* while a Cmd or Command token makes the parse fail with UnknownKey.
C18_ModifierTokensOfReplay ==
    (/\ Parsed
     /\ Cardinality(NonModifierPositions) = 1
     /\ KeyOfToken(rpTokens[LastOf(NonModifierPositions)]) # "none") =>
        IF NoCmdToken
        THEN /\ rpResult \notin ParseErrors
             /\ rpModifiers = ModifiersOf(rpTokens)
        ELSE /\ rpResult = "UnknownKey"
             /\ rpInjected = <<>>

\* a shortcut string that fails to parse, by the tokens it was written from
FailsToParse ==
    \/ rpShortcut = <<>>
    \/ NonModifierPositions = {}
    \/ \E i \in NonModifierPositions : KeyOfToken(rpTokens[i]) = "none"

\* C19: when the shortcut string fails to parse (empty, no main key, or a
\* token that names no known key, which gives UnknownKey), the replay returns
\* the error of the parse and neither builds nor injects any key event.
C19_ParseErrorInjectsNothing ==
    Parsed =>
        /\ FailsToParse =>
              /\ rpResult \in ParseErrors
              /\ rpResult = ParseShortcut(rpShortcut).err
              /\ rpPc = "done"
              /\ rpInputs = <<>>
              /\ rpInjected = <<>>
        /\ (\E i \in NonModifierPositions : KeyOfToken(rpTokens[i]) = "none") =>
              rpResult = "UnknownKey"
        /\ rpResult \in ParseErrors => (rpInputs = <<>> /\ rpInjected = <<>>)
        /\ rpInjected # <<>> => rpResult = "Ok"

\* C19 witness: "Ctrl+F1" was given to the replay, which returned UnknownKey.
C19_Witness ==
    /\ Parsed
    /\ rpShortcut = <<"C", "t", "r", "l", "+", "F", "1">>
    /\ rpResult = "UnknownKey"
    /\ rpPc = "done"

\* C20: the replay hands its whole event sequence to the platform in one
\* call, which is the only step that injects events; it returns an injection
\* error exactly when the platform reports zero events accepted and Ok for
\* every other count.
C20_InjectionResult ==
    [][(rpInjected' # rpInjected \/ (rpPc = "built" /\ rpPc' # "built")) =>
          /\ rpPc = "built" /\ rpPc' = "done"
          /\ rpInjected = <<>>
          /\ rpInputs' = rpInputs
          /\ Len(rpInputs) = 2 * Len(rpModifiers) + 2
          /\ Len(rpInjected') <= Len(rpInputs)
          /\ rpInjected' = SubSeq(rpInputs, 1, Len(rpInjected'))
          /\ (rpResult' = "InjectionError") <=> (Len(rpInjected') = 0)
          /\ Len(rpInjected') > 0 => rpResult' = "Ok"]_vars

\* C20 witness: the platform accepted one event of a batch of six and the
\* replay returned Ok.
C20_Witness ==
    /\ rpPc = "done"
    /\ Len(rpInputs) = 6
    /\ Len(rpInjected) = 1
    /\ rpResult = "Ok"


\* C21: copy(text) replaces the clipboard content atomically: after Ok the
\* clipboard holds exactly the text, and after a clipboard error it is not
\* left cleared with the text not set.
C21_CopyAtomic ==
    psPc = "done" /\ ~IsBlank(psText) =>
        /\ psResult = "Ok" => clipboard = ClipText(psText)
        /\ psResult = "ClipboardError" =>
               ~(clipboard = ClipEmpty /\ psClipBefore # ClipEmpty)

\* C21, the part that holds: after Ok the clipboard holds exactly the text
C21_CopyOkHoldsText ==
    psPc = "done" /\ ~IsBlank(psText) /\ psResult = "Ok" =>
        clipboard = ClipText(psText)

\* C28: paste_and_save writes the clipboard only after the add of the same
\* text returned Ok; when the add fails the error is returned and the
\* clipboard is as it was; a blank text returns Ok and touches neither the
\* history nor the clipboard.
C28_ClipboardAfterAdd ==
    [][/\ clipboard' # clipboard =>
              /\ psPc = "copy"
              /\ lastOp = [op |-> "add", arg |-> psText, ok |-> TRUE, fault |-> "none"]
              /\ \E i \in 1..Len(entries) : entries[i].text = psText
       /\ psPc = "add" /\ ~lastOp'.ok =>
              /\ psPc' = "done"
              /\ psResult' = "StorageError"
              /\ clipboard' = psClipBefore
       /\ psPc = "add" /\ lastOp'.ok => psPc' = "copy"
       /\ psPc # "add" /\ psPc' = "add" => ~AllWhitespace(psText')
       /\ psPc \in {"idle", "done"} /\ psPc' = "done" =>
              /\ AllWhitespace(psText')
              /\ psResult' = "Ok"
              /\ UNCHANGED <<entries, file, clipboard>>
      ]_vars

\* C28 witness: a failed add returned the error and the clipboard still holds
\* what it held before the call
C28_Witness ==
    /\ psPc = "done"
    /\ psResult = "StorageError"
    /\ ~lastOp.ok
    /\ clipboard = ClipText(<<"o">>)


\* the key events of a trace, in order
KeysOf(trace) == SelectSeq(trace, LAMBDA e : e.kind = "key")

\* the chord of the voice input after the release of the three modifiers
VoiceGesture ==
    << keybd_event("VK_CONTROL", TRUE), keybd_event("VK_SHIFT", TRUE),
       keybd_event("VK_MENU", TRUE),
       keybd_event("VK_LWIN", FALSE), keybd_event("VK_H", FALSE),
       keybd_event("VK_H", TRUE), keybd_event("VK_LWIN", TRUE) >>

\* C22: on a platform without keystroke injection simulate_paste and
\* trigger_voice_input return the unsupported error, inject nothing and
\* never return Ok.
C22_UnsupportedPlatform ==
    rpPlatform # "windows" =>
        /\ rpInjected = <<>>
        /\ rpInputs = <<>>
        /\ vcTrace = <<>>
        /\ vcPc = 0
        /\ rpResult \in {"none", "Unsupported"}
        /\ vcResult \in {"none", "Unsupported"}
        /\ rpPc = "done" => rpResult = "Unsupported"

\* C22 witness: both operations have returned on the other platform
C22_Witness ==
    /\ rpPlatform # "windows"
    /\ rpPc = "done"
    /\ rpResult = "Unsupported"
    /\ vcResult = "Unsupported"

\* C23: the voice gesture releases Ctrl, Shift and Alt, then waits, then
\* sends Win-down, H-down, H-up, Win-up; no key-down of the chord comes
\* before the three key-ups and the wait after them.
C23_GestureOrder ==
    LET keys == KeysOf(vcTrace)
    IN  /\ Len(keys) <= Len(VoiceGesture)
        /\ keys = SubSeq(VoiceGesture, 1, Len(keys))
        /\ \A i \in 1..Len(vcTrace) :
               vcTrace[i].kind = "key" /\ ~vcTrace[i].up =>
                   /\ \A m \in VoiceModifiers :
                          \E j \in 1..(i - 1) : vcTrace[j] = keybd_event(m, TRUE)
                   /\ \E w \in 1..(i - 1) :
                          /\ vcTrace[w].kind = "sleep"
                          /\ \A m \in VoiceModifiers :
                                 \E j \in 1..(w - 1) : vcTrace[j] = keybd_event(m, TRUE)
                   /\ vcHeld \cap VoiceModifiers = {}
        /\ vcPc = Len(voice_steps) + 1 => keys = VoiceGesture /\ vcHeld = {}

\* C23 witness: the thread has run to its end from a state with held modifiers
C23_Witness ==
    /\ rpPlatform = "windows"
    /\ vcResult = "Ok"
    /\ vcPc = Len(voice_steps) + 1
    /\ Len(vcTrace) = Len(voice_steps)
    /\ vcTrace[1] = sleep("500")


\* the simulate_paste command is at a statement of one of the given kinds
SimulatePasteAt(kinds) ==
    spPc \in 1..Len(simulate_paste_steps) /\ simulate_paste_steps[spPc] \in kinds

\* clipboard::simulate_paste, called by the command, has not returned
Replaying == spPc = Len(simulate_paste_steps) + 1

\* C24: no handler holds a lock of the shared state while it sleeps for the
\* settle delay or invokes keystroke injection, so every lock is free for
\* the other handlers during the settle delay.
C24_NoLockAcrossStall ==
    /\ SimulatePasteAt({"sleep", "replay"}) \/ Replaying =>
           \A l \in LockNames : locks[l] # "sp"
    /\ twPc = "trigger" => \A l \in LockNames : locks[l] # "tw"

\* C24 witness: toggle_window holds the config lock while the simulate_paste
\* command is in its settle delay
C24_Witness ==
    /\ SimulatePasteAt({"sleep"})
    /\ locks["config"] = "tw"

\* C25: the keystrokes of a replay are injected only after the window was
\* hidden and the settle delay after that hide is over; none is injected
\* while the window is visible.
C25_InjectedWhileHidden ==
    [][rpInjected' # rpInjected /\ rpInjected' # <<>> =>
           /\ Replaying
           /\ ~window_visible
      ]_vars

\* C25, the part that holds: keystrokes are injected only by a simulate_paste
\* command that has slept and released its locks
C25_InjectedAfterSettle ==
    [][rpInjected' # rpInjected /\ rpInjected' # <<>> =>
           /\ Replaying
           /\ \A l \in LockNames : locks[l] # "sp"
      ]_vars

\* C26: the shortcut simulate_paste replays is resolved from the snapshot
\* captured at the show that opened the cycle of the submit; a toggle_window
\* running during the settle delay does not change it.
C26_ShortcutOfCycle ==
    Replaying => rpShortcut = resolve(spSnapshot, app_overrides, simulate_paste_shortcut)

\* C27: toggle_window on a hidden window stores the capture in
\* previous_process before the window is shown, overwriting the old
\* snapshot; on a visible window it hides it and leaves previous_process.
C27_ToggleSnapshot ==
    [][/\ twPc = "store" /\ twPc' # twPc =>
              /\ previous_process' = twCaptured
              /\ twPc' = "show"
              /\ ~window_visible'
       /\ twPc' = "show" /\ twPc # "show" => twPc = "store"
       /\ window_visible' /\ ~window_visible =>
              /\ twPc = "show"
              /\ previous_process' = previous_process
       /\ twPc = "is_visible" /\ twPc' # twPc /\ window_visible =>
              /\ ~window_visible'
              /\ twPc' = "idle"
              /\ previous_process' = previous_process
       /\ twPc = "is_visible" /\ twPc' # twPc /\ ~window_visible =>
              /\ twPc' = "store"
              /\ twCaptured' \in get_foreground_process_name(rpPlatform)
       /\ previous_process' # previous_process => twPc = "store"
      ]_vars

\* C27 witness: a show has overwritten the snapshot of an earlier cycle with
\* a capture of nothing
C27_Witness ==
    /\ window_visible
    /\ twPc = "lock_config"
    /\ previous_process = NoProcess
    /\ spSnapshot # NoProcess


\* two candidates name the same shortcut: the same modifiers and key
SameShortcut(a, b) == a.modifiers = b.modifiers /\ a.code = b.code

\* C29: during the registration no shortcut the OS has rejected is attempted
\* a second time: the configured shortcut and the fallback list together
\* attempt each distinct shortcut at most once.
C29_NoSecondAttempt ==
    \A i, j \in 1..Len(hkAttempts) :
        i < j => ~SameShortcut(hkCandidates[hkAttempts[i].index],
                               hkCandidates[hkAttempts[j].index])

\* C30: once a hotkey is registered the registrar stays bound to it, and the
\* OS table keeps it, while the loop runs; it is unregistered only in the
\* step that ends the loop, and nothing registers afterwards.
C30_StaysRegistered ==
    [][/\ hkBound # NoHotkey =>
              /\ hkPc = "listening"
              /\ hkBound \in hkOsTable
              /\ hkPc' = "listening" =>
                     /\ hkBound' = hkBound
                     /\ hkOsTable' = hkOsTable
                     /\ hkAttempts' = hkAttempts
              /\ hkPc' # "listening" =>
                     /\ hkPc' = "ended"
                     /\ hkBound' = NoHotkey
                     /\ hkOsTable' = hkOsTable \ {hkBound}
       /\ hkPc = "ended" =>
              /\ hkPc' = "ended"
              /\ hkBound' = NoHotkey
              /\ hkOsTable' = hkOsTable
              /\ hkAttempts' = hkAttempts
      ]_vars

\* C30 witness: the listening loop runs bound to the hotkey registered at
\* the second attempt, after the surface was toggled
C30_Witness ==
    /\ hkProgram = "egui"
    /\ hkPc = "listening"
    /\ Len(hkAttempts) = 2
    /\ hkBound = hotkey_options[2]
    /\ hkOsTable = {hotkey_options[2]}
    /\ ~hkVisible


\* C32: whenever the replay returns Ok, every key whose key-down was
\* injected has had its key-up injected after it, so no key is left down.
C32_OkReleasesEveryKey ==
    rpResult = "Ok" =>
        \A i \in 1..Len(rpInjected) :
            ~rpInjected[i].up =>
                \E j \in (i + 1)..Len(rpInjected) :
                    rpInjected[j].up /\ rpInjected[j].key = rpInjected[i].key

\* C32, the part that holds: an Ok replay whose whole batch was accepted
\* leaves no key down
C32_WholeBatchReleasesEveryKey ==
    rpResult = "Ok" /\ rpInjected = rpInputs =>
        \A i \in 1..Len(rpInjected) :
            ~rpInjected[i].up =>
                \E j \in (i + 1)..Len(rpInjected) :
                    rpInjected[j].up /\ rpInjected[j].key = rpInjected[i].key


\* C35: the toggle flag is set only by the listener on a WM_HOTKEY with the
\* registered id and cleared only by the swap of update; the update that
\* clears it toggles `visible` exactly once, whatever the number of presses
\* since the last update, and an update without the flag does not toggle.
C35_FlagToggle ==
    [][/\ toggle_flag' /\ ~toggle_flag =>
              /\ hkPc = "listening"
              /\ flLast' = [op |-> "message", message |-> "WM_HOTKEY", id |-> hkBound.id]
              /\ hkVisible' = hkVisible
       /\ toggle_flag /\ ~toggle_flag' =>
              /\ flLast'.op = "update"
              /\ hkVisible' = ~hkVisible
              /\ flPresses' = 0
       /\ toggle_flag <=> flPresses > 0
       /\ flPresses' > flPresses => toggle_flag'
       /\ hkVisible' # hkVisible =>
              /\ flLast'.op = "update"
              /\ ~toggle_flag'
              /\ toggle_flag \/ (hkVisible /\ flLast'.message = "close")
      ]_vars

\* C35 witness: the hotkey was pressed twice since the last update, after an
\* earlier toggle hid the window
C35_Witness ==
    /\ hkPc = "listening"
    /\ toggle_flag
    /\ flPresses = 2
    /\ ~hkVisible


\* C31: save_config never changes which hotkey is registered, also when the
\* saved launch shortcut differs from the registered one; after a successful
\* save_config the next simulate_paste resolves against the overrides and
\* the default shortcut of the saved configuration.
C31_SaveConfigKeepsHotkey ==
    [][/\ scLast' # scLast \/ LiveConfig' # LiveConfig =>
              /\ hkBound' = hkBound
              /\ hkOsTable' = hkOsTable
              /\ hkAttempts' = hkAttempts
              /\ hkPc' = hkPc
              /\ scLast'.ok => LiveConfig' = scLast'.config
              /\ ~scLast'.ok => LiveConfig' = LiveConfig
       /\ rsPc = "called" /\ rsPc' = "resolved" /\ scLast.ok =>
              rpShortcut' = resolve(previous_process, scLast.config.app_overrides,
                                    scLast.config.simulate_paste_shortcut)
      ]_vars

\* C31 witness: with the default launch shortcut registered, a configuration
\* with another launch shortcut was saved and the next simulate_paste
\* resolved the shortcut of its override
C31_Witness ==
    /\ hkBound = HotkeyOfLaunch(DefaultLaunch)
    /\ hkBound \in hkOsTable
    /\ scLast.ok
    /\ cfgLaunch = AltP
    /\ rsPc = "resolved"
    /\ rpShortcut = ShiftInsert


\* the mutexes a handler holds
Held(h) == { l \in LockNames : locks[l] = h }

\* the statement a running handler is at
StatementOf(h) == handler_steps(h)[lkPc[h]]

\* a handler is at a lock statement whose mutex is held
Blocked(h) ==
    /\ h \in Handlers
    /\ lkPc[h] \in 1..Len(handler_steps(h))
    /\ StatementOf(h).op = "lock"
    /\ locks[StatementOf(h).lock] # "none"

\* a chain of n + 1 blocked handlers starts at h, each waiting for a mutex
\* the next one holds
RECURSIVE Stuck(_, _)
Stuck(h, n) ==
    /\ Blocked(h)
    /\ n = 0 \/ Stuck(locks[StatementOf(h).lock], n - 1)

\* C33: in every interleaving of the handlers no deadlock on the four
\* mutexes is reachable; simulate_paste is the only handler holding two
\* locks at once, config and then previous_process, and no other handler
\* acquires config while it holds previous_process.
C33_NoDeadlock ==
    /\ \A h \in Handlers : ~Stuck(h, Cardinality(Handlers))
    /\ \A h \in Handlers :
           /\ Cardinality(Held(h)) > 1 =>
                  h = "simulate_paste" /\ Held(h) = {"config", "previous_process"}
           /\ lkPc[h] = 0 => Held(h) = {}
           /\ (/\ lkPc[h] \in 1..Len(handler_steps(h))
               /\ StatementOf(h) = Lock("config")) => Held(h) = {}
           /\ (/\ lkPc[h] \in 1..Len(handler_steps(h))
               /\ StatementOf(h) = Lock("previous_process")) =>
                  Held(h) = IF h = "simulate_paste" THEN {"config"} ELSE {}

\* C33 witness: get_config waits for config, held by simulate_paste, which
\* waits for previous_process, held by toggle_window, which can go on
C33_Witness ==
    /\ Blocked("get_config")
    /\ Held("simulate_paste") = {"config"}
    /\ Blocked("simulate_paste")
    /\ Held("toggle_window") = {"previous_process"}
    /\ ~Blocked("toggle_window")
    /\ locks["history"] = "paste_and_save"
    /\ locks["voice_toggle_on"] = "set_voice_toggle"


\* both concurrent paste_and_save calls had a non-blank text and returned Ok
BothOk ==
    \A p \in Callers :
        pqPc[p] = "done" /\ pqResult[p] = "Ok" /\ ~IsBlank(pqText[p])

\* C34: when two concurrent paste_and_save calls with non-blank texts both
\* return Ok, both texts are in the history (up to the bound) and the
\* clipboard holds the text of the most recent history entry.
C34_ConcurrentSubmits ==
    BothOk =>
        /\ max_entries >= 2 =>
               \A p \in Callers : \E i \in 1..Len(entries) : entries[i].text = pqText[p]
        /\ entries # <<>>
        /\ clipboard = ClipText(entries[Len(entries)].text)

\* C34, the part that holds: the history has the last text added, both texts
\* when the bound allows two entries, and the clipboard holds one of the two
C34_BothInHistory ==
    BothOk =>
        /\ entries # <<>>
        /\ \E p \in Callers : entries[Len(entries)].text = pqText[p]
        /\ max_entries >= 2 =>
               \A p \in Callers : \E i \in 1..Len(entries) : entries[i].text = pqText[p]
        /\ \E p \in Callers : clipboard = ClipText(pqText[p])

====
